---- MODULE Spec2Model ----
(***************************************************************************)
(* fastgox/utils, package orm: the transaction manager, the fluent query   *)
(* builder and the migration manager, as state machines over an abstract   *)
(* database (committed rows, rows pending in an open transaction, the      *)
(* migrations bookkeeping table and the schema effects of migrations).     *)
(***************************************************************************)
EXTENDS Integers, Sequences, FiniteSets, TLC

VARIABLES
    \* ---- ORM handle and database (orm/orm.go) ----
    ormDb,        \* ORM.db: "nil" (never connected) or "open"
    dbRows,       \* rows committed in the database (visible to every connection)
    \* ---- transaction manager (orm/types.go, transaction part) ----
    txPc,         \* position of the WithTransaction call: "idle", "inFn", "returned"
    txApi,        \* which entry point is running
    txRows,       \* rows written on the open *sql.Tx, not yet committed
    txIssued,     \* ghost: rows whose INSERT was issued through a tx builder and reported success
    txLog,        \* ghost: calls made by the manager, in order
    txStmts,      \* ghost: statements issued by the unit of work, with the channel used
    txOut,        \* ghost: how the unit of work ended
    txRb,         \* ghost: what tx.Rollback answered, when called
    txCm,         \* ghost: what tx.Commit answered, when called
    txRet,        \* what WithTransaction gave back to its caller
    nextRow,      \* next fresh row identity
    \* ---- query builder (unnamed/part_005, query part) ----
    qb,           \* the builder's fields
    qbSQL,        \* last rendered SQL (sequence of tokens)
    qbArgs,       \* last returned argument list
    qbFirst,      \* result of the last First call
    \* ---- migration manager (unnamed/part_005, migration part) ----
    migrations,   \* MigrationManager.migrations: registered versions, in slice order
    records,      \* rows of the migrations table (set of versions)
    schema,       \* versions whose forward action currently has effect
    mmPc,         \* position of the running Run/Rollback call
    mmQueue,      \* versions the running call still has to visit
    mmLog,        \* ghost: events of the current call, in order
    mmRet,        \* result of the last finished call
    mmKind,       \* ghost: "run" or "rollback", the current or last call
    mmN,          \* ghost: the steps argument of the current or last Rollback
    mmErrV,       \* ghost: the version the returned error is about
    mmPre,        \* executed: the records the current call read at its start
    mmPreOk,      \* ghost: schema effects and records agreed when the call started
    \* ---- package-level migration functions (unnamed/part_005, Migrate/RollbackMigration) ----
    gmPrev,       \* ghost: kind, result and events of the previous package-level call
    \* ---- global handle (orm/orm.go: globalORM, once, ORM.mu) ----
    once,         \* sync.Once of Init: "fresh", "running" or "done"
    globalORM,    \* 0 (nil) or the caller whose config built the handle
    mu,           \* ORM.mu: the write holder (0 = none) and the read holders
    glPc,         \* per caller: position of its call on the global handle
    glOp,         \* per caller: the function it is calling
    glRet,        \* per caller: what the call returned
    glRan,        \* ghost, per caller: this Init call ran the function given to once.Do
    glSeen,       \* ghost, per caller: the phase the handle was in when a read-side call dispatched
    initRuns,     \* ghost: the callers whose Init ran the connection attempt, in order
    glPhase,      \* ghost: 1 after a connecting Init, 2 after a following Close, 3 after a following nil Init
    \* ---- model mapper, dialect, INSERT/UPDATE (orm/model.go, unnamed/part_006, part_007) ----
    mdDialect,    \* the dialect of the configured database type
    mdType,       \* the record type in use: its fields in declaration order
    mdTableName,  \* what the type's TableName() gives; empty when it has none
    mdInfo,       \* the last GetTableInfo call: what was passed and what came back
    mdIntro,      \* ghost: how many times the type's fields were introspected
    mdDDL,        \* the last CreateTableSQL call: its column list and its text
    mdStmt,       \* the last INSERT or UPDATE statement built
    tblMade,      \* the type's table exists in the database
    tblCols,      \* the columns the table was created with
    tblKeys,      \* the keys of the rows stored in the table
    insLog,       \* ghost: the Insert and InsertBatch calls made, with their results
    \* ---- schema builder (orm/schema.go, BaseMigration in unnamed/part_005) ----
    tb,           \* the tableBuilder of the running call: tableName, columns, alterMode, alterOps
    sbPc,         \* position of the schema call: "idle", "callback", "exec", "returned"
    sbKind,       \* the running call: "CreateTable", "AlterTable" or "DropColumn"
    sbCalls,      \* ghost: the calls the callback made on the builder, in order
    sbBefore,     \* ghost: the builder as it was before the callback's last call
    sbQueue,      \* the statements the call still has to execute
    sbSent,       \* ghost: the statements handed to the database, with their results
    sbRet,        \* what the schema call returned
    \* ---- global handle, further ghosts (orm/orm.go) ----
    glSent,       \* ghost, per caller: its read-side call was dispatched to the pool o.db
    \* ---- AutoMigrate over several models (orm/model.go) ----
    amTables,     \* the tables the database has
    amPc,         \* position of the AutoMigrate call: "idle", "run", "returned"
    amModels,     \* the models the call was given
    amQueue,      \* the models the loop still has to visit
    amLog,        \* ghost: the statements the call issued: existence checks and DDL
    amPre,        \* ghost: the tables the database had when the call started
    amRet,        \* what the call returned
    \* ---- one builder used again after First (query builder) ----
    fs            \* ghost: the builder's last call, the builder before its First, the Limit values since

ormVars == <<ormDb, dbRows>>
txVars  == <<txPc, txApi, txRows, txIssued, txLog, txStmts, txOut, txRb, txCm, txRet, nextRow>>
qbVars  == <<qb, qbSQL, qbArgs, qbFirst>>
mmVars  == <<migrations, records, schema, mmPc, mmQueue, mmLog, mmRet, mmKind, mmN, mmErrV, mmPre, mmPreOk>>
gmVars  == <<gmPrev>>
glVars  == <<once, globalORM, mu, glPc, glOp, glRet, glRan, glSeen, initRuns, glPhase>>
mdVars  == <<mdDialect, mdType, mdTableName, mdInfo, mdIntro, mdDDL, mdStmt,
             tblMade, tblCols, tblKeys, insLog>>
sbVars  == <<tb, sbPc, sbKind, sbCalls, sbBefore, sbQueue, sbSent, sbRet>>
hxVars  == <<glSent>>
amVars  == <<amTables, amPc, amModels, amQueue, amLog, amPre, amRet>>
fsVars  == <<fs>>
extVars == <<sbVars, hxVars, amVars, fsVars>>
pkgVars == <<gmVars, glVars, mdVars, extVars>>
vars    == <<ormVars, txVars, qbVars, mmVars, pkgVars>>

\* ---------------------------------------------------------------------------
\* Bounds
\* ---------------------------------------------------------------------------
MaxRows == 3
MaxConds == 2
MaxHavings == 1
MaxExtras == 1
MaxSteps == 3

\* ---------------------------------------------------------------------------
\* Values
\* ---------------------------------------------------------------------------
Nil == "nil"
NoVal == "none"
FnErrs == {"e1", "e2"}
PanicVals == {"p1", "p2"}
RetNil == [kind |-> "nil", val |-> NoVal]
RetErr(e) == [kind |-> "err", val |-> e]
RetPanic(p) == [kind |-> "panic", val |-> p]
RetNone == [kind |-> "none", val |-> NoVal]
\* a table row / a mapped record: key and one payload column
Row(id, name) == [id |-> id, name |-> name]
ZeroRow == Row(0, "")
FnOutcomes == {RetNil} \cup {RetErr(e) : e \in FnErrs} \cup {RetPanic(p) : p \in PanicVals}

\* ---------------------------------------------------------------------------
\* Helpers
\* ---------------------------------------------------------------------------
RECURSIVE CountOf(_, _)
CountOf(s, x) ==
    IF s = <<>> THEN 0
    ELSE (IF Head(s) = x THEN 1 ELSE 0) + CountOf(Tail(s), x)

\* ---------------------------------------------------------------------------
\* ORM handle: Begin / BeginTx
\* ---------------------------------------------------------------------------
DriverResults == {"ok", "fail"}

\* ORM.Begin: explicit error on a handle without db, else the driver's answer.
ORM_Begin(driver) ==
    IF ormDb = Nil THEN RetErr("notConnected")
    ELSE IF driver = "fail" THEN RetErr("beginErr")
    ELSE RetNil

\* ORM.BeginTx: the same with a context and options handed to the driver.
ORM_BeginTx(driver) ==
    IF ormDb = Nil THEN RetErr("notConnected")
    ELSE IF driver = "fail" THEN RetErr("beginTxErr")
    ELSE RetNil

\* ---------------------------------------------------------------------------
\* Builders: which channel a builder carries
\* ---------------------------------------------------------------------------
\* queryBuilder struct, zero-valued except for the named fields.
EmptyBuilder ==
    [orm |-> Nil, tx |-> Nil, tableName |-> "", selectCols |-> <<>>,
     conditions |-> <<>>, joins |-> <<>>, orders |-> <<>>, groups |-> <<>>,
     havings |-> <<>>, limitNum |-> 0, offsetNum |-> 0]

NewQueryBuilder(o, tableName) ==
    [EmptyBuilder EXCEPT !.orm = o, !.tableName = tableName]

\* faulty variant: the transaction builder is built on the pool handle
NewTransactionQueryBuilder_OnPool(tx, tableName) ==
    [EmptyBuilder EXCEPT !.orm = "pool", !.tableName = tableName]

NewTransactionQueryBuilder(tx, tableName) ==
    [EmptyBuilder EXCEPT !.tx = tx, !.tableName = tableName]

\* transaction.Table / transaction.Model: both go through NewTransactionQueryBuilder
transaction_Table(tx, tableName) == NewTransactionQueryBuilder(tx, tableName)
transaction_Model(tx, tableName) == NewTransactionQueryBuilder(tx, tableName)

\* ORM.Table
ORM_Table(tableName) == NewQueryBuilder("pool", tableName)

\* queryBuilder.Insert (and every other terminal operation): the channel the
\* statement is dispatched on.
queryBuilder_Dispatch(q) == IF q.tx # Nil THEN "tx" ELSE "pool"

\* ---------------------------------------------------------------------------
\* TransactionManager.WithTransaction / WithTransactionContext: what happens
\* once Begin has succeeded and the unit of work has ended with `out`.
\* rb and cm are the answers tx.Rollback and tx.Commit would give.
\* ---------------------------------------------------------------------------
RollbackResults == {RetNil, RetErr("rollbackErr")}
CommitResults == {RetNil, RetErr("commitErr")}

\* faulty variant: the error path returns Rollback's answer when Rollback fails
WithTransaction_ReturnsRollbackErr(out, rb, cm) ==
    IF out.kind = "panic"
    THEN [calls |-> <<"Rollback", "repanic">>, ret |-> RetPanic(out.val)]
    ELSE IF out.kind = "err"
    THEN [calls |-> <<"Rollback">>, ret |-> IF rb.kind = "err" THEN rb ELSE RetErr(out.val)]
    ELSE [calls |-> <<"Commit">>, ret |-> cm]

\* faulty variant: the deferred recover turns the panic into a returned error
WithTransaction_SwallowsPanic(out, rb, cm) ==
    IF out.kind = "panic"
    THEN [calls |-> <<"Rollback">>, ret |-> RetErr(out.val)]
    ELSE IF out.kind = "err"
    THEN [calls |-> <<"Rollback">>, ret |-> RetErr(out.val)]
    ELSE [calls |-> <<"Commit">>, ret |-> cm]

\* faulty variant: the error path rolls back but falls through to Commit
WithTransaction_FallsThrough(out, rb, cm) ==
    IF out.kind = "panic"
    THEN [calls |-> <<"Rollback", "repanic">>, ret |-> RetPanic(out.val)]
    ELSE IF out.kind = "err"
    THEN [calls |-> <<"Rollback", "Commit">>, ret |-> cm]
    ELSE [calls |-> <<"Commit">>, ret |-> cm]

TransactionManager_WithTransaction(out, rb, cm) ==
    IF out.kind = "panic"
    \* deferred func: recover() # nil, tx.Rollback(), panic(r)
    THEN [calls |-> <<"Rollback", "repanic">>, ret |-> RetPanic(out.val)]
    ELSE IF out.kind = "err"
    \* fn(tx) returned err: tx.Rollback() (answer dropped), return err
    THEN [calls |-> <<"Rollback">>, ret |-> RetErr(out.val)]
    \* return tx.Commit()
    ELSE [calls |-> <<"Commit">>, ret |-> cm]

TransactionManager_WithTransactionContext(out, rb, cm) ==
    IF out.kind = "panic"
    THEN [calls |-> <<"Rollback", "repanic">>, ret |-> RetPanic(out.val)]
    ELSE IF out.kind = "err"
    THEN [calls |-> <<"Rollback">>, ret |-> RetErr(out.val)]
    ELSE [calls |-> <<"Commit">>, ret |-> cm]

TxApis == {"WithTransaction", "WithTransactionContext"}

\* tm.orm.Begin() / tm.orm.BeginTx(ctx, opts) and the early return on failure
WithTransactionBegin ==
    /\ txPc = "idle"
    /\ \E api \in TxApis, driver \in DriverResults :
         LET b == IF api = "WithTransaction" THEN ORM_Begin(driver) ELSE ORM_BeginTx(driver)
         IN  /\ txApi' = api
             /\ IF b.kind = "err"
                THEN /\ txPc' = "returned"
                     /\ txRet' = b
                     /\ txLog' = <<"Begin">>
                ELSE /\ txPc' = "inFn"
                     /\ txRet' = RetNone
                     /\ txLog' = <<"Begin", "fn">>
    /\ txRows' = {}
    /\ UNCHANGED <<txIssued, txStmts, txOut, txRb, txCm, nextRow>>
    /\ UNCHANGED <<ormVars, qbVars, mmVars, pkgVars>>

\* The unit of work inserts one fresh row, through a builder obtained from
\* tx.Table / tx.Model or through a builder of the shared handle.
FnInsert ==
    /\ txPc = "inFn"
    /\ nextRow <= MaxRows
    /\ \E src \in {"tx.Table", "tx.Model", "orm.Table"}, ok \in BOOLEAN :
         LET q == CASE src = "tx.Table" -> transaction_Table("tx", "users")
                    [] src = "tx.Model" -> transaction_Model("tx", "users")
                    [] OTHER -> ORM_Table("users")
             chan == queryBuilder_Dispatch(q)
             row == Row(nextRow, "tx")
         IN  /\ txStmts' = Append(txStmts, [row |-> row, src |-> src, chan |-> chan, ok |-> ok])
             /\ txRows' = IF ok /\ chan = "tx" THEN txRows \cup {row} ELSE txRows
             /\ dbRows' = IF ok /\ chan = "pool" THEN dbRows \cup {row} ELSE dbRows
             /\ txIssued' = IF ok /\ src # "orm.Table" THEN txIssued \cup {row} ELSE txIssued
    /\ nextRow' = nextRow + 1
    /\ UNCHANGED <<txPc, txApi, txLog, txOut, txRb, txCm, txRet, ormDb, pkgVars>>
    /\ UNCHANGED <<qbVars, mmVars>>

\* The unit of work ends (returns nil, returns an error, or panics) and the
\* manager finishes: commit or rollback on the *sql.Tx, then return / re-panic.
WithTransactionFinish ==
    /\ txPc = "inFn"
    /\ \E out \in FnOutcomes, rb \in RollbackResults, cm \in CommitResults :
         LET r == IF txApi = "WithTransaction"
                  THEN TransactionManager_WithTransaction(out, rb, cm)
                  ELSE TransactionManager_WithTransactionContext(out, rb, cm)
             committed == CountOf(r.calls, "Commit") > 0 /\ cm = RetNil
                          /\ (r.calls[1] = "Commit")
         IN  /\ txOut' = out
             /\ txRb' = IF CountOf(r.calls, "Rollback") > 0 THEN rb ELSE RetNone
             /\ txCm' = IF CountOf(r.calls, "Commit") > 0 THEN cm ELSE RetNone
             /\ txLog' = txLog \o r.calls
             /\ txRet' = r.ret
             \* sql.Tx.Commit publishes the pending rows; without it they are dropped
             /\ dbRows' = IF committed THEN dbRows \cup txRows ELSE dbRows
    /\ txRows' = {}
    /\ txPc' = "returned"
    /\ UNCHANGED <<txApi, txIssued, txStmts, nextRow, ormDb, pkgVars>>
    /\ UNCHANGED <<qbVars, mmVars>>

\* The caller goes on to its next WithTransaction call (a new manager per call).
TxNextCall ==
    /\ txPc = "returned"
    /\ txPc' = "idle"
    /\ txLog' = <<>>
    /\ txStmts' = <<>>
    /\ txIssued' = {}
    /\ txOut' = RetNone
    /\ txRb' = RetNone
    /\ txCm' = RetNone
    /\ txRet' = RetNone
    /\ UNCHANGED <<txApi, txRows, nextRow>>
    /\ UNCHANGED <<ormVars, qbVars, mmVars, pkgVars>>


\* ---------------------------------------------------------------------------
\* Query builder: SQL text is a sequence of tokens, "?" being one token.
\* The caller's inputs are chosen so that every text and every argument
\* names the call it came from: the k-th condition uses column Col(k) and
\* arguments 10*k+1, 10*k+2; the k-th HAVING uses HCol(k) and 1000+10*k+j.
\* ---------------------------------------------------------------------------
Kw(s) == [t |-> s, k |-> 0]
Col(k) == [t |-> "col", k |-> k]
HCol(k) == [t |-> "hcol", k |-> k]
Num(n) == [t |-> "num", k |-> n]
PH == Kw("?")

\* interface{} holding a []interface{}: the slice has an identity and elements
NilIface == [id |-> 0, isNil |-> TRUE, elems |-> <<>>]
Slice(id, elems) == [id |-> id, isNil |-> FALSE, elems |-> elems]

CondArgs(k, n) == [j \in 1..n |-> 10 * k + j]
HavingArgs(k, n) == [j \in 1..n |-> 1000 + 10 * k + j]

\* raw condition texts with n placeholders, as a caller writes them
WhereText(k, n) ==
    CASE n = 0 -> <<Col(k), Kw("IS"), Kw("NULL")>>
      [] n = 1 -> <<Col(k), Kw(">"), PH>>
      [] OTHER -> <<Col(k), Kw("="), PH, Kw("AND"), Col(k), Kw(">"), PH>>
HavingText(k, n) ==
    CASE n = 0 -> <<HCol(k), Kw("IS"), Kw("NULL")>>
      [] n = 1 -> <<HCol(k), Kw(">"), PH>>
      [] OTHER -> <<HCol(k), Kw("BETWEEN"), PH, Kw("AND"), PH>>

\* strings.Join(parts, sep) on token sequences
RECURSIVE JoinTok(_, _)
JoinTok(parts, sep) ==
    IF parts = <<>> THEN <<>>
    ELSE IF Len(parts) = 1 THEN Head(parts)
    ELSE Head(parts) \o sep \o JoinTok(Tail(parts), sep)

\* make([]string, n) filled with "?" and joined by ", "
Placeholders(n) == JoinTok([j \in 1..n |-> <<PH>>], <<Kw(",")>>)

\* ---- chained calls: each appends one entry ----
Where(q, text, args) ==
    [q EXCEPT !.conditions = Append(@,
        [Column |-> text, Operator |-> "=", Value |-> args, Values |-> <<>>, Logic |-> "AND"])]

WhereIn(q, column, values) ==
    [q EXCEPT !.conditions = Append(@,
        [Column |-> column, Operator |-> "IN", Value |-> NilIface, Values |-> values, Logic |-> "AND"])]

WhereNotIn(q, column, values) ==
    [q EXCEPT !.conditions = Append(@,
        [Column |-> column, Operator |-> "NOT IN", Value |-> NilIface, Values |-> values, Logic |-> "AND"])]

WhereBetween(q, column, start, end) ==
    [q EXCEPT !.conditions = Append(@,
        [Column |-> column, Operator |-> "BETWEEN", Value |-> NilIface, Values |-> <<start, end>>, Logic |-> "AND"])]

WhereNull(q, column) ==
    [q EXCEPT !.conditions = Append(@,
        [Column |-> column, Operator |-> "IS NULL", Value |-> NilIface, Values |-> <<>>, Logic |-> "AND"])]

WhereNotNull(q, column) ==
    [q EXCEPT !.conditions = Append(@,
        [Column |-> column, Operator |-> "IS NOT NULL", Value |-> NilIface, Values |-> <<>>, Logic |-> "AND"])]

Having(q, text, args) ==
    [q EXCEPT !.havings = Append(@, [Condition |-> text, Args |-> args])]

Limit(q, n) == [q EXCEPT !.limitNum = n]
Offset(q, n) == [q EXCEPT !.offsetNum = n]
Select(q, cols) == [q EXCEPT !.selectCols = cols]
OrderBy(q, column, dir) == [q EXCEPT !.orders = Append(@, [Column |-> column, Direction |-> dir])]
GroupBy(q, cols) == [q EXCEPT !.groups = @ \o cols]
Join(q, table, cond) == [q EXCEPT !.joins = Append(@, [Type |-> "INNER", Table |-> table, Condition |-> cond])]

\* ---- rendering ----
\* one condition's contribution to parts and args (the body of the switch)
CondPart(c) ==
    CASE c.Operator \in {"IN", "NOT IN"} ->
            [sql |-> <<c.Column \o <<Kw(c.Operator), Kw("(")>> \o Placeholders(Len(c.Values)) \o <<Kw(")")>> >>,
             args |-> c.Values]
      [] c.Operator = "BETWEEN" ->
            [sql |-> <<c.Column \o <<Kw("BETWEEN"), PH, Kw("AND"), PH>> >>,
             args |-> c.Values]
      [] c.Operator \in {"IS NULL", "IS NOT NULL"} ->
            [sql |-> <<c.Column \o <<Kw(c.Operator)>> >>, args |-> <<>>]
      [] OTHER ->
            IF ~c.Value.isNil
            THEN IF Len(c.Value.elems) > 0
                 THEN [sql |-> <<c.Column>>, args |-> c.Value.elems]
                 \* the whole (empty) slice is appended as one argument
                 ELSE [sql |-> <<c.Column \o <<Kw(c.Operator), PH>> >>, args |-> <<c.Value.id>>]
            ELSE [sql |-> <<>>, args |-> <<>>]

RECURSIVE WhereParts(_, _)
WhereParts(conds, i) ==
    IF i > Len(conds) THEN [sql |-> <<>>, args |-> <<>>]
    ELSE LET c == conds[i]
             p == CondPart(c)
             rest == WhereParts(conds, i + 1)
         IN  [sql |-> (IF i > 1 THEN <<<<Kw(c.Logic)>>>> ELSE <<>>) \o p.sql \o rest.sql,
              args |-> p.args \o rest.args]

\* faulty variant: BETWEEN emits its two placeholders but forgets its values
buildWhereClause_BetweenNoArgs(q) ==
    LET Part(c) == IF c.Operator = "BETWEEN"
                   THEN [sql |-> CondPart(c).sql, args |-> <<>>]
                   ELSE CondPart(c)
        F[i \in 1..(Len(q.conditions) + 1)] ==
            IF i > Len(q.conditions) THEN [sql |-> <<>>, args |-> <<>>]
            ELSE [sql |-> (IF i > 1 THEN <<<<Kw("AND")>>>> ELSE <<>>) \o Part(q.conditions[i]).sql \o F[i + 1].sql,
                  args |-> Part(q.conditions[i]).args \o F[i + 1].args]
    IN  [sql |-> JoinTok(F[1].sql, <<>>), args |-> F[1].args]

buildWhereClause(q) ==
    LET w == WhereParts(q.conditions, 1)
    IN  [sql |-> JoinTok(w.sql, <<>>), args |-> w.args]

RECURSIVE HavingParts(_, _)
HavingParts(hs, i) ==
    IF i > Len(hs) THEN [sql |-> <<>>, args |-> <<>>]
    ELSE LET rest == HavingParts(hs, i + 1)
         IN  [sql |-> (IF i > 1 THEN <<<<Kw("AND")>>>> ELSE <<>>) \o <<hs[i].Condition>> \o rest.sql,
              args |-> hs[i].Args \o rest.args]

buildHavingClause(q) ==
    LET h == HavingParts(q.havings, 1)
    IN  [sql |-> JoinTok(h.sql, <<>>), args |-> h.args]

buildSelectSQL(q) ==
    LET w == buildWhereClause(q)
        h == buildHavingClause(q)
        selectPart == IF Len(q.selectCols) > 0
                      THEN <<Kw("SELECT")>> \o JoinTok([i \in 1..Len(q.selectCols) |-> <<Kw(q.selectCols[i])>>], <<Kw(",")>>)
                      ELSE <<Kw("SELECT"), Kw("*")>>
        fromPart == <<Kw("FROM"), Kw(q.tableName)>>
        joinPart == JoinTok([i \in 1..Len(q.joins) |->
                        <<Kw(q.joins[i].Type), Kw("JOIN"), Kw(q.joins[i].Table), Kw("ON"), Kw(q.joins[i].Condition)>>], <<>>)
        wherePart == IF Len(q.conditions) > 0 THEN <<Kw("WHERE")>> \o w.sql ELSE <<>>
        groupPart == IF Len(q.groups) > 0
                     THEN <<Kw("GROUP BY")>> \o JoinTok([i \in 1..Len(q.groups) |-> <<Kw(q.groups[i])>>], <<Kw(",")>>)
                     ELSE <<>>
        havingPart == IF Len(q.havings) > 0 THEN <<Kw("HAVING")>> \o h.sql ELSE <<>>
        orderPart == IF Len(q.orders) > 0
                     THEN <<Kw("ORDER BY")>> \o JoinTok([i \in 1..Len(q.orders) |->
                              <<Kw(q.orders[i].Column), Kw(q.orders[i].Direction)>>], <<Kw(",")>>)
                     ELSE <<>>
        limitPart == IF q.limitNum > 0 THEN <<Kw("LIMIT"), Num(q.limitNum)>> ELSE <<>>
        offsetPart == IF q.offsetNum > 0 THEN <<Kw("OFFSET"), Num(q.offsetNum)>> ELSE <<>>
    IN  [sql |-> selectPart \o fromPart \o joinPart \o wherePart \o groupPart
                 \o havingPart \o orderPart \o limitPart \o offsetPart,
         args |-> (IF Len(q.conditions) > 0 THEN w.args ELSE <<>>)
                  \o (IF Len(q.havings) > 0 THEN h.args ELSE <<>>)]

ToSQL(q) == buildSelectSQL(q)


\* ---- the chain, driven by a caller ----
NumConds == Len(qb.conditions)
NumHavings == Len(qb.havings)
NumExtras == Len(qb.joins) + Len(qb.orders) + Len(qb.groups) + (IF qb.selectCols = <<>> THEN 0 ELSE 1)
LimitVals == {0, 5}
OffsetVals == {0, 2}
NoFirst == [called |-> FALSE, matched |-> FALSE, row |-> ZeroRow, destKind |-> "none", err |-> Nil, dest |-> ZeroRow]

Chained(q) ==
    /\ qb' = q
    /\ qbSQL' = <<>>
    /\ qbArgs' = <<>>
    /\ UNCHANGED <<qbFirst, ormVars, txVars, mmVars, pkgVars>>

QbWhere ==
    /\ NumConds < MaxConds
    /\ \E n \in 0..2 :
         LET k == NumConds + 1
         IN  Chained(Where(qb, WhereText(k, n), Slice(10 * k, CondArgs(k, n))))

QbWhereIn ==
    /\ NumConds < MaxConds
    /\ \E n \in {0, 2} :
         LET k == NumConds + 1 IN Chained(WhereIn(qb, <<Col(k)>>, CondArgs(k, n)))

QbWhereNotIn ==
    /\ NumConds < MaxConds
    /\ LET k == NumConds + 1 IN Chained(WhereNotIn(qb, <<Col(k)>>, CondArgs(k, 1)))

QbWhereBetween ==
    /\ NumConds < MaxConds
    /\ LET k == NumConds + 1 IN Chained(WhereBetween(qb, <<Col(k)>>, 10 * k + 1, 10 * k + 2))

QbWhereNull ==
    /\ NumConds < MaxConds
    /\ LET k == NumConds + 1 IN Chained(WhereNull(qb, <<Col(k)>>))

QbWhereNotNull ==
    /\ NumConds < MaxConds
    /\ LET k == NumConds + 1 IN Chained(WhereNotNull(qb, <<Col(k)>>))

QbHaving ==
    /\ NumHavings < MaxHavings
    /\ \E n \in 1..2 :
         LET k == NumHavings + 1 IN Chained(Having(qb, HavingText(k, n), HavingArgs(k, n)))

QbLimit == \E n \in LimitVals : n # qb.limitNum /\ Chained(Limit(qb, n))

QbOffset == \E n \in OffsetVals : n # qb.offsetNum /\ Chained(Offset(qb, n))

QbSelect == NumExtras < MaxExtras /\ Chained(Select(qb, <<"id", "name">>))

QbOrderBy == NumExtras < MaxExtras /\ Chained(OrderBy(qb, "name", "DESC"))

QbGroupBy == NumExtras < MaxExtras /\ Chained(GroupBy(qb, <<"name">>))

QbJoin == NumExtras < MaxExtras /\ Chained(Join(qb, "orders", "users.id = orders.user_id"))

QbToSQL ==
    /\ qbSQL = <<>>
    /\ LET r == ToSQL(qb)
       IN  /\ qbSQL' = r.sql
           /\ qbArgs' = r.args
    /\ UNCHANGED <<qb, qbFirst, ormVars, txVars, mmVars, pkgVars>>

\* ORM.Model / ORM.Table: a fresh builder
QbNew ==
    /\ qb # ORM_Table("users")
    /\ Chained(ORM_Table("users"))


\* ---------------------------------------------------------------------------
\* Initial states
\* ---------------------------------------------------------------------------
InitTxVars ==
    /\ txPc = "idle"
    /\ txApi = "WithTransaction"
    /\ txRows = {}
    /\ txIssued = {}
    /\ txLog = <<>>
    /\ txStmts = <<>>
    /\ txOut = RetNone
    /\ txRb = RetNone
    /\ txCm = RetNone
    /\ txRet = RetNone
    /\ nextRow = 1

InitQbVars ==
    /\ qb = ORM_Table("users")
    /\ qbSQL = <<>>
    /\ qbArgs = <<>>
    /\ qbFirst = NoFirst

InitMmVars ==
    /\ migrations = <<>>
    /\ records = {}
    /\ schema = {}
    /\ mmPc = "idle"
    /\ mmQueue = <<>>
    /\ mmLog = <<>>
    /\ mmRet = RetNone
    /\ mmKind = "none"
    /\ mmN = 0
    /\ mmErrV = <<>>
    /\ mmPre = {}
    /\ mmPreOk = TRUE

NoCall == [kind |-> "none", ret |-> RetNone, log |-> <<>>]

InitGmVars ==
    /\ gmPrev = NoCall

MaxProcs == 2
Procs == 1..MaxProcs

InitGlVars ==
    /\ once = "fresh"
    /\ globalORM = 0
    /\ mu = [w |-> 0, r |-> {}]
    /\ glPc = [p \in Procs |-> "idle"]
    /\ glOp = [p \in Procs |-> "none"]
    /\ glRet = [p \in Procs |-> RetNone]
    /\ glRan = [p \in Procs |-> FALSE]
    /\ glSeen = [p \in Procs |-> 0]
    /\ initRuns = <<>>
    /\ glPhase = 0

\* nothing mapped, created or inserted yet
MdStart ==
    /\ mdInfo = [called |-> FALSE, kind |-> "none", err |-> Nil,
                 info |-> [isNil |-> TRUE, Name |-> <<>>, Columns |-> <<>>]]
    /\ mdIntro = 0
    /\ mdDDL = [cols |-> <<>>, sql |-> <<>>]
    /\ mdStmt = [stmt |-> "none", table |-> <<>>, columns |-> <<>>, rows |-> 0, args |-> <<>>]
    /\ tblMade = FALSE
    /\ tblCols = <<>>
    /\ tblKeys = {}
    /\ insLog = <<>>

InitMdVars ==
    /\ mdDialect = "sqlite"
    /\ mdType = <<>>
    /\ mdTableName = <<>>
    /\ MdStart

\* no schema call made yet
NoBuilder == [tableName |-> <<>>, columns |-> <<>>, alterMode |-> FALSE, alterOps |-> <<>>]

InitSbVars ==
    /\ tb = NoBuilder
    /\ sbPc = "idle"
    /\ sbKind = "none"
    /\ sbCalls = <<>>
    /\ sbBefore = NoBuilder
    /\ sbQueue = <<>>
    /\ sbSent = <<>>
    /\ sbRet = RetNone

InitHxVars ==
    /\ glSent = [p \in Procs |-> FALSE]

\* an empty database, no AutoMigrate call made yet
InitAmVars ==
    /\ amTables = {}
    /\ amPc = "idle"
    /\ amModels = <<>>
    /\ amQueue = <<>>
    /\ amLog = <<>>
    /\ amPre = {}
    /\ amRet = RetNone

\* no call made on the builder yet
NoFs == [last |-> "none", before |-> EmptyBuilder, first |-> FALSE, limits |-> {}]

InitFsVars ==
    /\ fs = NoFs

InitExtVars ==
    /\ InitSbVars
    /\ InitHxVars
    /\ InitAmVars
    /\ InitFsVars

InitPkgVars ==
    /\ InitGmVars
    /\ InitGlVars
    /\ InitMdVars
    /\ InitExtVars

\* a handle after New(config), connected or not, on an empty database
InitTx ==
    /\ ormDb \in {Nil, "open"}
    /\ dbRows = {}
    /\ InitTxVars /\ InitQbVars /\ InitMmVars /\ InitPkgVars

Init ==
    /\ ormDb = "open"
    /\ dbRows = {}
    /\ InitTxVars /\ InitQbVars /\ InitMmVars /\ InitPkgVars

\* ---------------------------------------------------------------------------
\* Specifications
\* ---------------------------------------------------------------------------
NextTx ==
    \/ WithTransactionBegin
    \/ FnInsert
    \/ WithTransactionFinish
    \/ TxNextCall

SpecTx == InitTx /\ [][NextTx]_vars

NextQB ==
    \/ QbWhere
    \/ QbWhereIn
    \/ QbWhereNotIn
    \/ QbWhereBetween
    \/ QbWhereNull
    \/ QbWhereNotNull
    \/ QbHaving
    \/ QbLimit
    \/ QbOffset
    \/ QbSelect
    \/ QbOrderBy
    \/ QbGroupBy
    \/ QbJoin
    \/ QbToSQL
    \/ QbNew

SpecQB == Init /\ [][NextQB]_vars

\* ---------------------------------------------------------------------------
\* Transaction manager: properties
\* ---------------------------------------------------------------------------
BeginSucceeded == CountOf(txLog, "fn") > 0

\* C1: when Begin succeeds and the unit of work returns a non-nil error,
\* WithTransaction and WithTransactionContext call Rollback exactly once,
\* never call Commit, and return that same error, also when Rollback fails.
C1_ErrorRollsBackOnceReturnsSameError ==
    (txPc = "returned" /\ txOut.kind = "err") =>
        /\ CountOf(txLog, "Rollback") = 1
        /\ CountOf(txLog, "Commit") = 0
        /\ txRet = txOut

C1_Witness ==
    /\ txPc = "returned"
    /\ txOut = RetErr("e2")
    /\ txRb = RetErr("rollbackErr")
    /\ txRet = RetErr("e2")

\* C2: when the unit of work panics, the transaction is rolled back first and
\* then the panic is raised again with the identical value; Commit is never
\* called and the panic is neither turned into a returned error nor swallowed.
C2_PanicRollsBackThenReraises ==
    (txPc = "returned" /\ txOut.kind = "panic") =>
        /\ txLog = <<"Begin", "fn", "Rollback", "repanic">>
        /\ txRet = RetPanic(txOut.val)

C2_Witness ==
    /\ txPc = "returned"
    /\ txApi = "WithTransaction"
    /\ txOut = RetPanic("p2")
    /\ txRet = RetPanic("p2")
    /\ txStmts # <<>>

\* C3: when Begin succeeds the manager calls exactly one of Commit and
\* Rollback, exactly once: Commit exactly when the unit of work returned nil
\* (and then Commit's answer is what WithTransaction returns), Rollback
\* otherwise; when Begin fails the unit of work is never invoked.
C3_ExactlyOneOfCommitRollback ==
    txPc = "returned" =>
        IF BeginSucceeded
        THEN /\ CountOf(txLog, "Commit") + CountOf(txLog, "Rollback") = 1
             /\ (CountOf(txLog, "Commit") = 1) <=> (txOut = RetNil)
             /\ (txOut = RetNil) => (txRet = txCm /\ txCm # RetNone)
        ELSE /\ txLog = <<"Begin">>
             /\ txOut = RetNone
             /\ txRet.kind = "err"

C3_Witness ==
    /\ txPc = "returned"
    /\ txOut = RetNil
    /\ txCm = RetErr("commitErr")
    /\ txRet = RetErr("commitErr")
    /\ txLog = <<"Begin", "fn", "Commit">>

\* C4: every statement issued through a builder obtained from tx.Table or
\* tx.Model is dispatched on the transaction and never on the shared pool, so
\* when the callback returns an error none of its inserts that reported
\* success is in the database after WithTransaction has returned.
C4_TxBuilderStaysOnTransaction ==
    /\ \A i \in 1..Len(txStmts) :
         txStmts[i].src \in {"tx.Table", "tx.Model"} => txStmts[i].chan = "tx"
    /\ (txPc = "returned" /\ txOut.kind = "err") => (dbRows \cap txIssued = {})

C4_Witness ==
    /\ txPc = "returned"
    /\ txOut.kind = "err"
    /\ Cardinality(txIssued) >= 2
    /\ \E i \in 1..Len(txStmts) : txStmts[i].src = "tx.Model" /\ txStmts[i].ok
    /\ \E i \in 1..Len(txStmts) : txStmts[i].src = "tx.Table" /\ txStmts[i].ok

\* ---------------------------------------------------------------------------
\* Query builder: properties
\* ---------------------------------------------------------------------------
PhPositions(sql) == {p \in 1..Len(sql) : sql[p] = PH}
\* position of the i-th placeholder from the left
NthPh(sql, i) == CHOOSE p \in PhPositions(sql) : Cardinality({j \in PhPositions(sql) : j <= p}) = i
\* the call a token belongs to: the nearest column token at or before it
TokOwner(sql, p) ==
    LET js == {j \in 1..p : sql[j].t \in {"col", "hcol"}}
        m == CHOOSE j \in js : \A j2 \in js : j2 <= j
    IN  sql[m]
\* the call an argument was passed to, by the caller's numbering
ArgOwner(a) == IF a >= 1000 THEN HCol((a - 1000) \div 10) ELSE Col(a \div 10)
\* every argument handed to the chain
ChainArgs(q) ==
    UNION {{q.conditions[k].Values[j] : j \in 1..Len(q.conditions[k].Values)} : k \in 1..Len(q.conditions)}
    \cup UNION {{q.conditions[k].Value.elems[j] : j \in 1..Len(q.conditions[k].Value.elems)} : k \in 1..Len(q.conditions)}
    \cup UNION {{q.havings[k].Args[j] : j \in 1..Len(q.havings[k].Args)} : k \in 1..Len(q.havings)}

\* C5: for every chain of Where, WhereIn, WhereNotIn, WhereBetween, WhereNull,
\* WhereNotNull and Having calls, the SQL of ToSQL has as many "?" as the
\* returned list has arguments, the i-th placeholder from the left belongs to
\* the call the i-th argument was passed to, and the arguments come in call
\* order: WHERE conditions first, then HAVING conditions.
C5_PlaceholdersMatchArguments ==
    qbSQL # <<>> =>
        /\ Cardinality(PhPositions(qbSQL)) = Len(qbArgs)
        /\ \A i \in 1..Len(qbArgs) :
             i <= Cardinality(PhPositions(qbSQL)) =>
                TokOwner(qbSQL, NthPh(qbSQL, i)) = ArgOwner(qbArgs[i])
        /\ \A i \in 1..Len(qbArgs), j \in 1..Len(qbArgs) : i < j => qbArgs[i] < qbArgs[j]
        /\ ChainArgs(qb) \subseteq {qbArgs[i] : i \in 1..Len(qbArgs)}

\* where("age > ?", 18).whereIn("role", "admin", "user").limit(5)
C5_Witness ==
    /\ qbSQL = <<Kw("SELECT"), Kw("*"), Kw("FROM"), Kw("users"), Kw("WHERE"),
                 Col(1), Kw(">"), PH, Kw("AND"),
                 Col(2), Kw("IN"), Kw("("), PH, Kw(","), PH, Kw(")"),
                 Kw("LIMIT"), Num(5)>>
    /\ qbArgs = <<11, 21, 22>>


\* the conditions added by Where(text) with no arguments after the text
NoArgWheres(q) ==
    {i \in 1..Len(q.conditions) :
        /\ q.conditions[i].Operator = "="
        /\ ~q.conditions[i].Value.isNil
        /\ q.conditions[i].Value.elems = <<>>}

\* where in the statement a text starts
TextAt(sql, text) ==
    {p \in 1..(Len(sql) - Len(text) + 1) : SubSeq(sql, p, p + Len(text) - 1) = text}

\* C29: a Where call with a raw condition text and no arguments contributes
\* exactly that text to the WHERE clause: what follows the text in the
\* statement is the next condition's AND, another clause or the end, never an
\* operator or a placeholder, and the call contributes no entry to the
\* argument list.
C29_RawWhereIsTextOnly ==
    qbSQL # <<>> =>
        \A i \in NoArgWheres(qb) :
            /\ TextAt(qbSQL, qb.conditions[i].Column) # {}
            /\ \A p \in TextAt(qbSQL, qb.conditions[i].Column) :
                 LET after == p + Len(qb.conditions[i].Column)
                 IN  after <= Len(qbSQL) => qbSQL[after] \notin {Kw("="), PH}
            /\ \A j \in 1..Len(qbArgs) : qbArgs[j] # qb.conditions[i].Value.id


\* ---------------------------------------------------------------------------
\* Insert and First against the database
\* ---------------------------------------------------------------------------
RowNames == {"a", "b"}
DestKinds == {"ptrStruct", "struct", "ptrSlice"}

\* rows the engine selects for the builder's filter; the filters used here are
\* key equalities ("id = ?", k)
Matching(q) ==
    {r \in dbRows : \A i \in 1..Len(q.conditions) : r.id = q.conditions[i].Value.elems[1]}

\* scanRow(row, dest): checks dest's kind and then gives up; row is never read
\* and dest is never written.
scanRow(row, destKind) ==
    IF destKind \notin {"ptrStruct", "ptrSlice"}
    THEN [err |-> "dest must be a pointer", dest |-> ZeroRow]
    ELSE IF destKind # "ptrStruct"
    THEN [err |-> "dest must be a struct pointer", dest |-> ZeroRow]
    ELSE [err |-> "scanRow needs further implementation", dest |-> ZeroRow]

\* Where("id = ?", k)
CrudWhereKey ==
    /\ NumConds = 0
    /\ \E k \in 1..MaxRows :
         Chained(Where(qb, <<Kw("id"), Kw("="), PH>>, Slice(1, <<k>>)))

\* queryBuilder.Insert on a pool builder: INSERT of every mapped column; the
\* engine rejects a duplicate key.
CrudInsert ==
    /\ queryBuilder_Dispatch(qb) = "pool"
    /\ ormDb = "open"
    /\ \E id \in 1..MaxRows, name \in RowNames :
         dbRows' = IF \E r \in dbRows : r.id = id THEN dbRows ELSE dbRows \cup {Row(id, name)}
    /\ UNCHANGED <<ormDb, qbVars, txVars, mmVars, pkgVars>>

\* queryBuilder.First: limitNum = 1, SELECT built and dispatched with QueryRow,
\* then scanRow.
CrudFirst ==
    /\ ormDb = "open"
    /\ \E destKind \in DestKinds :
         LET q1 == [qb EXCEPT !.limitNum = 1]
             r == buildSelectSQL(q1)
             m == Matching(q1)
         IN  /\ qb' = q1
             /\ qbSQL' = r.sql
             /\ qbArgs' = r.args
             /\ \E row \in (IF m = {} THEN {ZeroRow} ELSE m) :
                  LET res == scanRow(row, destKind)
                  IN  qbFirst' = [called |-> TRUE, matched |-> m # {}, row |-> row,
                                  destKind |-> destKind, err |-> res.err, dest |-> res.dest]
    /\ UNCHANGED <<ormVars, txVars, mmVars, pkgVars>>

NextCrud ==
    \/ CrudWhereKey
    \/ CrudInsert
    \/ CrudFirst
    \/ QbLimit
    \/ QbNew

SpecCrud == Init /\ [][NextCrud]_vars

\* C6: First forces LIMIT 1 and, when the filters match at least one row,
\* returns no error and binds the row's columns into the destination record,
\* so Insert(r) followed by First on r's key yields a record equal to r.
C6_FirstBindsMatchedRow ==
    (qbFirst.called /\ qbFirst.matched /\ qbFirst.destKind = "ptrStruct") =>
        /\ qb.limitNum = 1
        /\ qbFirst.err = Nil
        /\ qbFirst.dest = qbFirst.row


\* ---------------------------------------------------------------------------
\* Migration manager
\* A version is a string, here a sequence of digits; Go's < on strings is
\* lexicographic: "1" < "10" < "2".
\* ---------------------------------------------------------------------------
Versions == {<<1>>, <<1, 0>>, <<2>>}
NoVersion == <<>>

RECURSIVE LexLess(_, _)
LexLess(a, b) ==
    IF a = <<>> THEN b # <<>>
    ELSE IF b = <<>> THEN FALSE
    ELSE IF a[1] # b[1] THEN a[1] < b[1]
    ELSE LexLess(Tail(a), Tail(b))

Range(sq) == {sq[i] : i \in 1..Len(sq)}

RECURSIVE SortAsc(_)
SortAsc(S) ==
    IF S = {} THEN <<>>
    ELSE LET m == CHOOSE x \in S : \A y \in S \ {x} : LexLess(x, y)
         IN  <<m>> \o SortAsc(S \ {m})

RECURSIVE SortDesc(_)
SortDesc(S) ==
    IF S = {} THEN <<>>
    ELSE LET m == CHOOSE x \in S : \A y \in S \ {x} : LexLess(y, x)
         IN  <<m>> \o SortDesc(S \ {m})

Min(a, b) == IF a < b THEN a ELSE b

\* faulty variant: Run walks the migrations in registration order
RunOrder_Unsorted(ms) == ms

\* sort.Slice(mm.migrations, Version() < Version()); versions are distinct
RunOrder(ms) == SortAsc(Range(ms))

\* faulty variant: Rollback takes the versions in ascending order
RollbackVersions_Ascending(executed, steps) ==
    SubSeq(SortAsc(executed), 1, Min(steps, Cardinality(executed)))

\* Rollback: the executed versions, sorted descending, cut to steps
RollbackVersions(executed, steps) ==
    SubSeq(SortDesc(executed), 1, Min(steps, Cardinality(executed)))

Ev(e, v, ok) == [e |-> e, v |-> v, ok |-> ok]

\* faulty variant: a version without a registered migration is skipped silently
RollbackOne_SkipsMissing(v, registered, downOk, removeOk) ==
    IF v \notin registered
    THEN [log |-> <<>>, undone |-> FALSE, removed |-> FALSE, ret |-> RetNone]
    ELSE IF ~downOk
    THEN [log |-> <<Ev("Down", v, FALSE)>>, undone |-> FALSE, removed |-> FALSE,
          ret |-> RetErr("downFailed")]
    ELSE IF ~removeOk
    THEN [log |-> <<Ev("Down", v, TRUE), Ev("Remove", v, FALSE)>>, undone |-> TRUE,
          removed |-> FALSE, ret |-> RetErr("removeFailed")]
    ELSE [log |-> <<Ev("Down", v, TRUE), Ev("Remove", v, TRUE)>>, undone |-> TRUE,
          removed |-> TRUE, ret |-> RetNone]

\* one iteration of Rollback's loop: lookup, Down, removeMigrationRecord.
\* ret = RetNone means the loop goes on.
RollbackOne(v, registered, downOk, removeOk) ==
    IF v \notin registered
    THEN [log |-> <<>>, undone |-> FALSE, removed |-> FALSE, ret |-> RetErr("notFound")]
    ELSE IF ~downOk
    THEN [log |-> <<Ev("Down", v, FALSE)>>, undone |-> FALSE, removed |-> FALSE,
          ret |-> RetErr("downFailed")]
    ELSE IF ~removeOk
    THEN [log |-> <<Ev("Down", v, TRUE), Ev("Remove", v, FALSE)>>, undone |-> TRUE,
          removed |-> FALSE, ret |-> RetErr("removeFailed")]
    ELSE [log |-> <<Ev("Down", v, TRUE), Ev("Remove", v, TRUE)>>, undone |-> TRUE,
          removed |-> TRUE, ret |-> RetNone]

\* one iteration of Run's loop: skip if executed, else Up, then recordMigration
\* faulty variant: the version is recorded although its Up failed
RunOne_RecordsFailedUp(v, executed, upOk, recordOk) ==
    IF v \in executed
    THEN [log |-> <<>>, applied |-> FALSE, recorded |-> FALSE, ret |-> RetNone]
    ELSE IF ~upOk
    THEN [log |-> <<Ev("Up", v, FALSE), Ev("Record", v, TRUE)>>, applied |-> FALSE,
          recorded |-> TRUE, ret |-> RetErr("upFailed")]
    ELSE IF ~recordOk
    THEN [log |-> <<Ev("Up", v, TRUE), Ev("Record", v, FALSE)>>, applied |-> TRUE,
          recorded |-> FALSE, ret |-> RetErr("recordFailed")]
    ELSE [log |-> <<Ev("Up", v, TRUE), Ev("Record", v, TRUE)>>, applied |-> TRUE,
          recorded |-> TRUE, ret |-> RetNone]

RunOne(v, executed, upOk, recordOk) ==
    IF v \in executed
    THEN [log |-> <<>>, applied |-> FALSE, recorded |-> FALSE, ret |-> RetNone]
    ELSE IF ~upOk
    THEN [log |-> <<Ev("Up", v, FALSE)>>, applied |-> FALSE, recorded |-> FALSE,
          ret |-> RetErr("upFailed")]
    ELSE IF ~recordOk
    THEN [log |-> <<Ev("Up", v, TRUE), Ev("Record", v, FALSE)>>, applied |-> TRUE,
          recorded |-> FALSE, ret |-> RetErr("recordFailed")]
    ELSE [log |-> <<Ev("Up", v, TRUE), Ev("Record", v, TRUE)>>, applied |-> TRUE,
          recorded |-> TRUE, ret |-> RetNone]

MmIdleFrame == UNCHANGED <<ormVars, txVars, qbVars, pkgVars>>

\* NewMigrationManager: a manager with no migration registered, same database
NewMigrationManager ==
    /\ mmPc = "idle"
    /\ migrations # <<>>
    /\ migrations' = <<>>
    /\ UNCHANGED <<records, schema, mmPc, mmQueue, mmLog, mmRet, mmKind, mmN, mmErrV, mmPre, mmPreOk>>
    /\ MmIdleFrame

AddMigration ==
    /\ mmPc = "idle"
    /\ \E v \in Versions \ Range(migrations) : migrations' = Append(migrations, v)
    /\ UNCHANGED <<records, schema, mmPc, mmQueue, mmLog, mmRet, mmKind, mmN, mmErrV, mmPre, mmPreOk>>
    /\ MmIdleFrame

\* Run up to its loop: ensureMigrationTable, getExecutedMigrations, sort
RunStart ==
    /\ mmPc = "idle"
    /\ mmKind' = "run"
    /\ mmN' = 0
    /\ mmLog' = <<>>
    /\ mmErrV' = NoVersion
    /\ mmPreOk' = (schema = records)
    /\ \E tableOk \in BOOLEAN, queryOk \in BOOLEAN :
         IF ~tableOk \/ ~queryOk
         THEN /\ mmRet' = RetErr(IF ~tableOk THEN "tableFailed" ELSE "queryFailed")
              /\ mmPc' = "returned"
              /\ UNCHANGED <<migrations, mmQueue, mmPre>>
         ELSE /\ mmRet' = RetNone
              /\ mmPre' = records
              /\ migrations' = RunOrder(migrations)
              /\ mmQueue' = RunOrder(migrations)
              /\ mmPc' = "run"
    /\ UNCHANGED <<records, schema>>
    /\ MmIdleFrame

\* one pass of Run's loop, or its return nil after the last migration
RunStep ==
    /\ mmPc = "run"
    /\ IF mmQueue = <<>>
       THEN /\ mmPc' = "returned"
            /\ mmRet' = RetNil
            /\ UNCHANGED <<records, schema, mmQueue, mmLog, mmErrV>>
       ELSE \E upOk \in BOOLEAN, recordOk \in BOOLEAN :
              LET v == Head(mmQueue)
                  r == RunOne(v, mmPre, upOk, recordOk)
              IN  /\ mmLog' = mmLog \o r.log
                  /\ schema' = IF r.applied THEN schema \cup {v} ELSE schema
                  /\ records' = IF r.recorded THEN records \cup {v} ELSE records
                  /\ IF r.ret = RetNone
                     THEN /\ mmQueue' = Tail(mmQueue)
                          /\ UNCHANGED <<mmPc, mmRet, mmErrV>>
                     ELSE /\ mmPc' = "returned"
                          /\ mmRet' = r.ret
                          /\ mmErrV' = v
                          /\ mmQueue' = <<>>
    /\ UNCHANGED <<migrations, mmKind, mmN, mmPre, mmPreOk>>
    /\ MmIdleFrame

\* Rollback(steps) up to its loop: getExecutedMigrations, sort descending, cut
RollbackStart ==
    /\ mmPc = "idle"
    /\ mmKind' = "rollback"
    /\ mmLog' = <<>>
    /\ mmErrV' = NoVersion
    /\ mmPreOk' = (schema = records)
    /\ \E steps \in 0..MaxSteps, queryOk \in BOOLEAN :
         /\ mmN' = steps
         /\ IF ~queryOk
            THEN /\ mmRet' = RetErr("queryFailed")
                 /\ mmPc' = "returned"
                 /\ UNCHANGED <<mmQueue, mmPre>>
            ELSE /\ mmRet' = RetNone
                 /\ mmPre' = records
                 /\ mmQueue' = RollbackVersions(records, steps)
                 /\ mmPc' = "rollback"
    /\ UNCHANGED <<migrations, records, schema>>
    /\ MmIdleFrame

\* one pass of Rollback's loop, or its return nil after the last step
RollbackStep ==
    /\ mmPc = "rollback"
    /\ IF mmQueue = <<>>
       THEN /\ mmPc' = "returned"
            /\ mmRet' = RetNil
            /\ UNCHANGED <<records, schema, mmQueue, mmLog, mmErrV>>
       ELSE \E downOk \in BOOLEAN, removeOk \in BOOLEAN :
              LET v == Head(mmQueue)
                  r == RollbackOne(v, Range(migrations), downOk, removeOk)
              IN  /\ mmLog' = mmLog \o r.log
                  /\ schema' = IF r.undone THEN schema \ {v} ELSE schema
                  /\ records' = IF r.removed THEN records \ {v} ELSE records
                  /\ IF r.ret = RetNone
                     THEN /\ mmQueue' = Tail(mmQueue)
                          /\ UNCHANGED <<mmPc, mmRet, mmErrV>>
                     ELSE /\ mmPc' = "returned"
                          /\ mmRet' = r.ret
                          /\ mmErrV' = v
                          /\ mmQueue' = <<>>
    /\ UNCHANGED <<migrations, mmKind, mmN, mmPre, mmPreOk>>
    /\ MmIdleFrame

\* The caller goes on to its next call on the manager.
MmNextCall ==
    /\ mmPc = "returned"
    /\ mmPc' = "idle"
    /\ mmKind' = "none"
    /\ mmN' = 0
    /\ mmLog' = <<>>
    /\ mmRet' = RetNone
    /\ mmErrV' = NoVersion
    /\ mmPre' = {}
    /\ mmPreOk' = TRUE
    /\ UNCHANGED <<migrations, records, schema, mmQueue>>
    /\ MmIdleFrame

NextMig ==
    \/ MmNextCall
    \/ NewMigrationManager
    \/ AddMigration
    \/ RunStart
    \/ RunStep
    \/ RollbackStart
    \/ RollbackStep

SpecMig == Init /\ [][NextMig]_vars


\* ---------------------------------------------------------------------------
\* Migration manager: properties
\* ---------------------------------------------------------------------------
LogIdx == 1..Len(mmLog)
\* the k lexicographically greatest versions of S
Greatest(S, k) == {v \in S : Cardinality({u \in S : LexLess(v, u)}) < k}
Selected == Greatest(mmPre, Min(mmN, Cardinality(mmPre)))

C8_ApplyAndRecordAtomic ==
    (mmPc = "returned" /\ mmKind = "run" /\ mmPreOk) =>
        \A v \in Versions : (v \in schema) <=> (v \in records)

\* C9: Rollback(n) invokes Down for exactly the min(n, applied) greatest
\* applied versions, in descending order, removes each version's record after
\* its Down has succeeded and leaves every other record unchanged.
C9_RollbackGreatestDescending ==
    (mmKind = "rollback" /\ mmRet # RetErr("queryFailed")) =>
        /\ \A i \in LogIdx : mmLog[i].v \in Selected
        /\ \A i \in LogIdx, j \in LogIdx :
             (i < j /\ mmLog[i].e = "Down" /\ mmLog[j].e = "Down") => LexLess(mmLog[j].v, mmLog[i].v)
        /\ \A i \in LogIdx :
             mmLog[i].e = "Down" =>
                \A u \in Selected : LexLess(mmLog[i].v, u) =>
                    \E j \in 1..(i - 1) : mmLog[j] = Ev("Remove", u, TRUE)
        /\ \A i \in LogIdx :
             mmLog[i].e = "Remove" => (i > 1 /\ mmLog[i - 1] = Ev("Down", mmLog[i].v, TRUE))
        /\ records = mmPre \ {mmLog[i].v : i \in {j \in LogIdx : mmLog[j] = Ev("Remove", mmLog[j].v, TRUE)}}
        /\ (mmPc = "returned" /\ mmRet = RetNil) =>
                /\ {mmLog[i].v : i \in {j \in LogIdx : mmLog[j].e = "Down"}} = Selected
                /\ records = mmPre \ Selected

\* after versions "1" and "2" are applied, Rollback(1) undoes "2" only
C9_Witness ==
    /\ mmKind = "rollback" /\ mmPc = "returned" /\ mmRet = RetNil
    /\ mmN = 1
    /\ mmPre = {<<1>>, <<2>>}
    /\ mmLog = <<Ev("Down", <<2>>, TRUE), Ev("Remove", <<2>>, TRUE)>>
    /\ records = {<<1>>}

\* C10: when a version selected by Rollback has no registered migration,
\* Rollback returns an explicit error, runs no reverse action for it and
\* keeps its record; versions rolled back earlier in the call stay rolled
\* back and less recent versions are not attempted.
C10_RollbackUnregisteredFails ==
    (mmKind = "rollback" /\ mmPc = "returned") =>
        /\ mmRet = RetErr("notFound") =>
             /\ mmErrV \in Selected
             /\ mmErrV \notin Range(migrations)
             /\ mmErrV \in records
             /\ \A i \in LogIdx :
                  /\ LexLess(mmErrV, mmLog[i].v)
                  /\ mmLog[i].ok
                  /\ mmLog[i].v \notin records
             /\ \A v \in mmPre : (v = mmErrV \/ LexLess(v, mmErrV)) => v \in records
        /\ mmRet = RetNil => Selected \subseteq Range(migrations)

\* three versions recorded, only "2" registered: "2" is undone, "10" is missing
C10_Witness ==
    /\ mmKind = "rollback" /\ mmPc = "returned"
    /\ mmRet = RetErr("notFound")
    /\ mmErrV = <<1, 0>>
    /\ mmN = 3
    /\ mmLog = <<Ev("Down", <<2>>, TRUE), Ev("Remove", <<2>>, TRUE)>>
    /\ records = {<<1>>, <<1, 0>>}


\* ---------------------------------------------------------------------------
\* Package-level Migrate and RollbackMigration
\* Each call builds its own manager on the global handle; the database (the
\* migrations table and the schema) is what the calls share.
\* ---------------------------------------------------------------------------
MaxMigs == 2

\* the argument lists of Migrate: distinct versions, in any order
MigrationLists ==
    {ms \in UNION {[1..n -> Versions] : n \in 1..MaxMigs} :
        \A i, j \in 1..Len(ms) : i # j => ms[i] # ms[j]}

\* Migrate(migrations...): NewMigrationManager, AddMigration for each argument,
\* then Run up to its loop
Migrate ==
    /\ mmPc = "idle"
    /\ mmKind' = "run"
    /\ mmN' = 0
    /\ mmLog' = <<>>
    /\ mmErrV' = NoVersion
    /\ mmPreOk' = (schema = records)
    /\ \E ms \in MigrationLists, tableOk \in BOOLEAN, queryOk \in BOOLEAN :
         IF ~tableOk \/ ~queryOk
         THEN /\ mmRet' = RetErr(IF ~tableOk THEN "tableFailed" ELSE "queryFailed")
              /\ mmPc' = "returned"
              /\ migrations' = ms
              /\ UNCHANGED <<mmQueue, mmPre>>
         ELSE /\ mmRet' = RetNone
              /\ mmPre' = records
              /\ migrations' = RunOrder(ms)
              /\ mmQueue' = RunOrder(ms)
              /\ mmPc' = "run"
    /\ UNCHANGED <<records, schema>>
    /\ MmIdleFrame

\* RollbackMigration(steps): NewMigrationManager, then Rollback(steps) up to
\* its loop
RollbackMigration ==
    /\ mmPc = "idle"
    /\ mmKind' = "rollback"
    /\ mmLog' = <<>>
    /\ mmErrV' = NoVersion
    /\ mmPreOk' = (schema = records)
    /\ migrations' = <<>>
    /\ \E steps \in 0..MaxSteps, queryOk \in BOOLEAN :
         /\ mmN' = steps
         /\ IF ~queryOk
            THEN /\ mmRet' = RetErr("queryFailed")
                 /\ mmPc' = "returned"
                 /\ UNCHANGED <<mmQueue, mmPre>>
            ELSE /\ mmRet' = RetNone
                 /\ mmPre' = records
                 /\ mmQueue' = RollbackVersions(records, steps)
                 /\ mmPc' = "rollback"
    /\ UNCHANGED <<records, schema>>
    /\ MmIdleFrame

\* The caller goes on to its next package-level call.
GlobalNextCall ==
    /\ mmPc = "returned"
    /\ gmPrev' = [kind |-> mmKind, ret |-> mmRet, log |-> mmLog]
    /\ mmPc' = "idle"
    /\ mmKind' = "none"
    /\ mmN' = 0
    /\ mmLog' = <<>>
    /\ mmRet' = RetNone
    /\ mmErrV' = NoVersion
    /\ mmPre' = {}
    /\ mmPreOk' = TRUE
    /\ UNCHANGED <<migrations, records, schema, mmQueue>>
    /\ UNCHANGED <<ormVars, txVars, qbVars, glVars, mdVars, extVars>>

NextGlobalMig ==
    \/ Migrate
    \/ RunStep
    \/ RollbackMigration
    \/ RollbackStep
    \/ GlobalNextCall

SpecGlobalMig == Init /\ [][NextGlobalMig]_vars

\* the previous call was Migrate(m) for the single migration m, it applied and
\* recorded m, and m is the greatest version the following RollbackMigration(1)
\* found recorded
MigratedThenRollback(m) ==
    /\ gmPrev.kind = "run"
    /\ gmPrev.ret = RetNil
    /\ gmPrev.log = <<Ev("Up", m, TRUE), Ev("Record", m, TRUE)>>
    /\ mmPc = "returned"
    /\ mmKind = "rollback"
    /\ mmN = 1
    /\ m \in mmPre
    /\ \A w \in mmPre \ {m} : LexLess(w, m)

\* errors of the database itself, which any rollback may meet
RollbackDbErrs == {RetErr("queryFailed"), RetErr("downFailed"), RetErr("removeFailed")}

\* C11: after the package-level Migrate(m) applied and recorded m, the
\* following package-level RollbackMigration(1) invokes m's Down and removes
\* m's record, and returns no error (short of a failure of the database).
C11_RollbackMigrationUndoesMigrate ==
    \A m \in Versions :
        MigratedThenRollback(m) =>
            /\ mmRet \in {RetNil} \cup RollbackDbErrs
            /\ mmRet = RetNil =>
                 /\ mmLog = <<Ev("Down", m, TRUE), Ev("Remove", m, TRUE)>>
                 /\ m \notin records


\* ---------------------------------------------------------------------------
\* The global handle: Init, Connect, Close and the read-side calls, made by
\* concurrent callers. The database server itself is healthy: a call on an
\* open pool succeeds.
\* ---------------------------------------------------------------------------
MaxRuns == 3

ReadOps == {"Query", "QueryRow", "Exec", "Ping", "Begin", "BeginTx", "Raw"}

GlFrame == UNCHANGED <<dbRows, txVars, qbVars, mmVars, gmVars, mdVars, sbVars, amVars, fsVars>>

\* faulty variant: the function is run again by every call that finds no run
\* in progress
Once_Do_Always(o) == IF o = "running" THEN "wait" ELSE "run"

\* once.Do(f): the first call runs f, calls made meanwhile wait for it to
\* finish, calls made afterwards skip f
Once_Do(o) ==
    IF o = "fresh" THEN "run" ELSE IF o = "running" THEN "wait" ELSE "skip"

\* faulty variant: Connect takes the lock shared
ORM_Connect_RLock(m) == m.w = 0

\* o.mu.Lock() of Connect and Close: no writer and no reader holds the lock
ORM_Connect_Lock(m) == m.w = 0 /\ m.r = {}

\* o.mu.RLock() of the read-side calls: no writer holds the lock
ORM_RLock(m) == m.w = 0

\* faulty variant: Query panics on a nil o.db as QueryRow does
ORM_Read_QueryPanics(op, db) ==
    IF db = Nil
    THEN IF op \in {"QueryRow", "Query"} THEN RetPanic("notConnected")
         ELSE IF op = "Raw" THEN [kind |-> "db", val |-> Nil]
         ELSE RetErr("notConnected")
    ELSE IF op = "Raw" THEN [kind |-> "db", val |-> db]
    ELSE IF db = "closed" THEN RetErr("closed")
    ELSE RetNil

\* what a read-side call returns for the state of o.db it finds
ORM_Read(op, db) ==
    IF db = Nil
    THEN IF op = "QueryRow" THEN RetPanic("notConnected")
         ELSE IF op = "Raw" THEN [kind |-> "db", val |-> Nil]
         ELSE RetErr("notConnected")
    ELSE IF op = "Raw" THEN [kind |-> "db", val |-> db]
    ELSE IF db = "closed" THEN RetErr("closed")
    ELSE RetNil

\* GetGlobalORM panics while globalORM is nil
GlPanics(p) ==
    /\ globalORM = 0
    /\ glPc' = [glPc EXCEPT ![p] = "returned"]
    /\ glRet' = [glRet EXCEPT ![p] = RetPanic("notInitialized")]
    /\ glSeen' = [glSeen EXCEPT ![p] = glPhase]

\* Init(config): once.Do; the call that runs the function builds the handle
\* with New(config) and goes on to Connect, a later call returns its own nil err
InitCall(p) ==
    /\ glPc[p] = "idle"
    /\ Once_Do(once) # "wait"
    /\ glOp' = [glOp EXCEPT ![p] = "Init"]
    /\ IF Once_Do(once) = "run"
       THEN /\ Len(initRuns) < MaxRuns
            /\ once' = "running"
            /\ globalORM' = p
            /\ ormDb' = Nil
            /\ initRuns' = Append(initRuns, p)
            /\ glRan' = [glRan EXCEPT ![p] = TRUE]
            /\ glPc' = [glPc EXCEPT ![p] = "connectWant"]
            /\ UNCHANGED <<glRet, glSeen, glPhase>>
       ELSE /\ glPc' = [glPc EXCEPT ![p] = "returned"]
            /\ glRet' = [glRet EXCEPT ![p] = RetNil]
            /\ UNCHANGED glSeen
            /\ glPhase' = IF glPhase = 2 THEN 3 ELSE glPhase
            /\ UNCHANGED <<once, globalORM, ormDb, initRuns, glRan>>
    /\ UNCHANGED mu
    /\ UNCHANGED hxVars
    /\ GlFrame

\* Connect(): GetGlobalORM().Connect()
ConnectCall(p) ==
    /\ glPc[p] = "idle"
    /\ glOp' = [glOp EXCEPT ![p] = "Connect"]
    /\ IF globalORM = 0
       THEN GlPanics(p)
       ELSE /\ glPc' = [glPc EXCEPT ![p] = "connectWant"]
            /\ UNCHANGED <<glRet, glSeen>>
    /\ UNCHANGED <<once, globalORM, mu, glRan, initRuns, glPhase, ormDb>>
    /\ UNCHANGED hxVars
    /\ GlFrame

\* Connect: o.mu.Lock()
ConnectLock(p) ==
    /\ glPc[p] = "connectWant"
    /\ ORM_Connect_Lock(mu)
    /\ mu' = [mu EXCEPT !.w = p]
    /\ glPc' = [glPc EXCEPT ![p] = "connecting"]
    /\ UNCHANGED <<once, globalORM, glOp, glRet, glRan, glSeen, initRuns, glPhase, ormDb>>
    /\ UNCHANGED hxVars
    /\ GlFrame

\* Connect: buildDSN, sql.Open, Ping; o.db is assigned when all succeeded;
\* the deferred Unlock; Init's once.Do is finished by the return
ConnectFinish(p) ==
    /\ glPc[p] = "connecting"
    /\ \E ok \in BOOLEAN :
         /\ ormDb' = IF ok THEN "open" ELSE ormDb
         /\ glRet' = [glRet EXCEPT ![p] = IF ok THEN RetNil ELSE RetErr("connectFailed")]
         /\ glPhase' = IF ok THEN 1 ELSE glPhase
    /\ mu' = [mu EXCEPT !.w = 0]
    /\ once' = IF glOp[p] = "Init" THEN "done" ELSE once
    /\ UNCHANGED glSeen
    /\ glPc' = [glPc EXCEPT ![p] = "returned"]
    /\ UNCHANGED <<globalORM, glOp, glRan, initRuns>>
    /\ UNCHANGED glSent
    /\ GlFrame

\* Close(): GetGlobalORM().Close()
CloseCall(p) ==
    /\ glPc[p] = "idle"
    /\ glOp' = [glOp EXCEPT ![p] = "Close"]
    /\ IF globalORM = 0
       THEN GlPanics(p)
       ELSE /\ glPc' = [glPc EXCEPT ![p] = "closeWant"]
            /\ UNCHANGED <<glRet, glSeen>>
    /\ UNCHANGED <<once, globalORM, mu, glRan, initRuns, glPhase, ormDb>>
    /\ UNCHANGED hxVars
    /\ GlFrame

\* Close: o.mu.Lock()
CloseLock(p) ==
    /\ glPc[p] = "closeWant"
    /\ ORM_Connect_Lock(mu)
    /\ mu' = [mu EXCEPT !.w = p]
    /\ glPc' = [glPc EXCEPT ![p] = "closing"]
    /\ UNCHANGED <<once, globalORM, glOp, glRet, glRan, glSeen, initRuns, glPhase, ormDb>>
    /\ UNCHANGED hxVars
    /\ GlFrame

\* Close: o.db.Close() when o.db is set (o.db keeps pointing at the closed
\* pool); the deferred Unlock
CloseFinish(p) ==
    /\ glPc[p] = "closing"
    /\ ormDb' = IF ormDb = Nil THEN Nil ELSE "closed"
    /\ glRet' = [glRet EXCEPT ![p] = RetNil]
    /\ glPhase' = IF glPhase \in {1, 3} THEN 2 ELSE glPhase
    /\ mu' = [mu EXCEPT !.w = 0]
    /\ UNCHANGED glSeen
    /\ glPc' = [glPc EXCEPT ![p] = "returned"]
    /\ UNCHANGED <<once, globalORM, glOp, glRan, initRuns>>
    /\ UNCHANGED hxVars
    /\ GlFrame

\* a read-side call on GetGlobalORM()
ReadCall(p) ==
    /\ glPc[p] = "idle"
    /\ \E op \in ReadOps : glOp' = [glOp EXCEPT ![p] = op]
    /\ IF globalORM = 0
       THEN GlPanics(p)
       ELSE /\ glPc' = [glPc EXCEPT ![p] = "readWant"]
            /\ UNCHANGED <<glRet, glSeen>>
    /\ UNCHANGED <<once, globalORM, mu, glRan, initRuns, glPhase, ormDb>>
    /\ UNCHANGED hxVars
    /\ GlFrame

\* o.mu.RLock()
ReadLock(p) ==
    /\ glPc[p] = "readWant"
    /\ ORM_RLock(mu)
    /\ mu' = [mu EXCEPT !.r = @ \cup {p}]
    /\ glPc' = [glPc EXCEPT ![p] = "reading"]
    /\ UNCHANGED <<once, globalORM, glOp, glRet, glRan, glSeen, initRuns, glPhase, ormDb>>
    /\ UNCHANGED hxVars
    /\ GlFrame

\* the o.db == nil test, the dispatch on o.db, the deferred RUnlock
ReadFinish(p) ==
    /\ glPc[p] = "reading"
    /\ glRet' = [glRet EXCEPT ![p] = ORM_Read(glOp[p], ormDb)]
    /\ mu' = [mu EXCEPT !.r = @ \ {p}]
    /\ glSeen' = [glSeen EXCEPT ![p] = glPhase]
    /\ glPc' = [glPc EXCEPT ![p] = "returned"]
    /\ UNCHANGED <<once, globalORM, glOp, glRan, initRuns, glPhase, ormDb>>
    /\ glSent' = [glSent EXCEPT ![p] = (ormDb # Nil /\ glOp[p] # "Raw")]
    /\ GlFrame

\* The caller goes on to its next call.
GlNextCall(p) ==
    /\ glPc[p] = "returned"
    /\ glPc' = [glPc EXCEPT ![p] = "idle"]
    /\ glOp' = [glOp EXCEPT ![p] = "none"]
    /\ glRet' = [glRet EXCEPT ![p] = RetNone]
    /\ glRan' = [glRan EXCEPT ![p] = FALSE]
    /\ glSeen' = [glSeen EXCEPT ![p] = 0]
    /\ UNCHANGED <<once, globalORM, mu, initRuns, glPhase, ormDb>>
    /\ glSent' = [glSent EXCEPT ![p] = FALSE]
    /\ GlFrame

GlInit == \E p \in Procs : InitCall(p)
GlConnect == \E p \in Procs : ConnectCall(p)
GlConnectLock == \E p \in Procs : ConnectLock(p)
GlConnectFinish == \E p \in Procs : ConnectFinish(p)
GlClose == \E p \in Procs : CloseCall(p)
GlCloseLock == \E p \in Procs : CloseLock(p)
GlCloseFinish == \E p \in Procs : CloseFinish(p)
GlRead == \E p \in Procs : ReadCall(p)
GlReadLock == \E p \in Procs : ReadLock(p)
GlReadFinish == \E p \in Procs : ReadFinish(p)
GlNext == \E p \in Procs : GlNextCall(p)

\* before the first Init: no handle, no pool
InitOrm ==
    /\ ormDb = Nil
    /\ dbRows = {}
    /\ InitTxVars /\ InitQbVars /\ InitMmVars /\ InitPkgVars

NextOrm ==
    \/ GlInit
    \/ GlConnect
    \/ GlConnectLock
    \/ GlConnectFinish
    \/ GlClose
    \/ GlCloseLock
    \/ GlCloseFinish
    \/ GlRead
    \/ GlReadLock
    \/ GlReadFinish
    \/ GlNext

SpecOrm == InitOrm /\ [][NextOrm]_vars

\* ---------------------------------------------------------------------------
\* Global handle: properties
\* ---------------------------------------------------------------------------
\* C12: across sequential and concurrent Init calls the connection attempt of
\* the global handle runs at most once; an Init that did not run it (the
\* first one succeeded or failed before) is a no-op that returns nil and the
\* handle stays the one the first Init built.
C12_InitConnectsAtMostOnce ==
    /\ Len(initRuns) <= 1
    /\ initRuns # <<>> => globalORM = initRuns[1]
    /\ \A p \in Procs :
         (glPc[p] = "returned" /\ glOp[p] = "Init" /\ ~glRan[p]) =>
             /\ glRet[p] = RetNil
             /\ once = "done"
             /\ Len(initRuns) = 1

\* a second Init returned nil after the first one connected
C12_Witness ==
    \E p, q \in Procs :
        /\ p # q
        /\ glPc[p] = "returned" /\ glOp[p] = "Init" /\ glRan[p] /\ glRet[p] = RetNil
        /\ glPc[q] = "returned" /\ glOp[q] = "Init" /\ ~glRan[q] /\ glRet[q] = RetNil
        /\ ormDb = "open"

\* C13: after Init and then Close, a following Init that returned nil leaves
\* the global handle connected: the calls AutoMigrate, Insert and Count
\* dispatch (QueryRow, Exec and the other read-side calls) succeed.
C13_InitAfterCloseIsUsable ==
    \A p \in Procs :
        (glPc[p] = "returned" /\ glOp[p] \in ReadOps \ {"Raw"} /\ glSeen[p] = 3) =>
            glRet[p] = RetNil

\* C14: while a caller is inside Connect or Close it holds the lock alone: no
\* other caller is inside Connect, Close or a read-side call; every caller
\* inside a read-side call holds the lock shared, with no writer.
C14_ConnectCloseExclusive ==
    \A p \in Procs :
        /\ glPc[p] \in {"connecting", "closing"} =>
             /\ mu.w = p /\ mu.r = {}
             /\ \A q \in Procs \ {p} : glPc[q] \notin {"connecting", "closing", "reading"}
        /\ glPc[p] = "reading" => (p \in mu.r /\ mu.w = 0)

\* a Connect is in progress while a read-side call waits for the lock
C14_Witness ==
    \E p, q \in Procs :
        /\ glPc[p] = "connecting" /\ glOp[p] = "Connect" /\ ormDb = "closed"
        /\ glPc[q] = "readWant"

\* two read-side calls dispatch at the same time
ReadersOverlap ==
    \E p, q \in Procs : p # q /\ glPc[p] = "reading" /\ glPc[q] = "reading"

\* the call of p was made on a handle that exists and was never connected
OnUnconnected(p) ==
    /\ glPc[p] = "returned"
    /\ glOp[p] \in ReadOps
    /\ glSeen[p] = 0
    /\ glRet[p] # RetPanic("notInitialized")

\* C25: on a handle that was never connected Query, Exec, Ping, Begin and
\* BeginTx return the not-connected error and nothing is dispatched to a pool;
\* QueryRow panics, and it is the only operation of the handle that does.
C25_UnconnectedFailsExplicitly ==
    \A p \in Procs :
        /\ OnUnconnected(p) =>
             /\ ~glSent[p]
             /\ glOp[p] \in {"Query", "Exec", "Ping", "Begin", "BeginTx"} =>
                    glRet[p] = RetErr("notConnected")
             /\ glRet[p].kind = "panic" <=> glOp[p] = "QueryRow"
        /\ (glPc[p] = "returned" /\ glOp[p] \in {"Connect", "Close"}
                /\ glRet[p] # RetPanic("notInitialized")) =>
             glRet[p].kind # "panic"

\* QueryRow panicked and Query returned the error, on the same unconnected handle
C25_Witness ==
    \E p, q \in Procs :
        /\ OnUnconnected(p) /\ glOp[p] = "QueryRow" /\ glRet[p] = RetPanic("notConnected")
        /\ OnUnconnected(q) /\ glOp[q] = "Query" /\ glRet[q] = RetErr("notConnected")

\* the Init that ran the connection attempt returned its error, and no Connect
\* succeeded since
InitFailed == once = "done" /\ glPhase = 0

\* C27: once the first Init returned its connection error, every later Init
\* returns nil and makes no connection attempt, and GetGlobalORM gives the
\* handle that Init built (globalORM is set, so it does not panic), which is
\* unconnected.
C27_FailedInitIsNotRetried ==
    InitFailed =>
        /\ Len(initRuns) = 1
        /\ globalORM = initRuns[1]
        /\ ormDb = Nil
        /\ \A p \in Procs :
             /\ (glPc[p] = "returned" /\ glOp[p] = "Init" /\ ~glRan[p]) => glRet[p] = RetNil
             /\ (glOp[p] = "Init" /\ ~glRan[p]) => glPc[p] \notin {"connectWant", "connecting"}

\* after the failed first Init a second Init returned nil and a Query on the
\* global handle returned the not-connected error
C27_Witness ==
    \E p, q \in Procs :
        /\ InitFailed
        /\ glPc[p] = "returned" /\ glOp[p] = "Init" /\ ~glRan[p] /\ glRet[p] = RetNil
        /\ glPc[q] = "returned" /\ glOp[q] = "Query" /\ glRet[q] = RetErr("notConnected")


\* ---------------------------------------------------------------------------
\* Model mapper: tags, columns, table metadata
\* A string is a sequence of one-character strings, so that camelToSnake can
\* walk it. A tag is the list strings.Split(tag, ",") gives: the empty tag is
\* the empty list. The tags used here hold no blanks.
\* ---------------------------------------------------------------------------
UpperLetters == {"A", "C", "D", "I", "N", "P", "U"}

ToLower(c) ==
    CASE c = "A" -> "a" [] c = "C" -> "c" [] c = "D" -> "d" [] c = "I" -> "i"
      [] c = "N" -> "n" [] c = "P" -> "p" [] c = "U" -> "u" [] OTHER -> c

RECURSIVE camelToSnakeFrom(_, _)
camelToSnakeFrom(s, i) ==
    IF i > Len(s) THEN <<>>
    ELSE (IF i > 1 /\ s[i] \in UpperLetters THEN <<"_">> ELSE <<>>)
         \o <<ToLower(s[i])>> \o camelToSnakeFrom(s, i + 1)

\* an underscore before every upper-case letter but the first, then lower case
camelToSnake(s) == camelToSnakeFrom(s, 1)

\* tag segments: a bare text (the column segment), the empty segment, a flag,
\* or key:value with its text or number; the first segment of the tags used
\* here is a column name or empty
Seg(k, v, n) == [k |-> k, v |-> v, n |-> n]
SegText(v) == Seg("text", v, 0)
SegEmpty == Seg("text", <<>>, 0)
SegFlag(f) == Seg(f, <<>>, 0)
SegSize(n) == Seg("size", <<>>, n)
SegKV(k, v) == Seg(k, v, 0)
DashTag == <<SegText(<<"-">>)>>

ZeroFieldTag ==
    [Column |-> <<>>, Primary |-> FALSE, AutoIncrement |-> FALSE, NotNull |-> FALSE,
     Unique |-> FALSE, Type |-> <<>>, Size |-> 0, Default |-> <<>>,
     Comment |-> <<>>, Index |-> <<>>]

\* the size every size: segment yields
TagSizeDefault == 255

\* one pass of parseFieldTag's loop: an empty segment is skipped, the first
\* segment is the column name, the others set their attribute
parseSeg(ft, i, part) ==
    IF part.v = <<>> /\ part.k = "text" THEN ft
    ELSE IF i = 1 THEN [ft EXCEPT !.Column = part.v]
    ELSE CASE part.k = "primary" -> [ft EXCEPT !.Primary = TRUE]
           [] part.k = "auto_increment" -> [ft EXCEPT !.AutoIncrement = TRUE]
           [] part.k = "not_null" -> [ft EXCEPT !.NotNull = TRUE]
           [] part.k = "unique" -> [ft EXCEPT !.Unique = TRUE]
           [] part.k = "type" -> [ft EXCEPT !.Type = part.v]
           [] part.k = "size" -> [ft EXCEPT !.Size = TagSizeDefault]
           [] part.k = "default" -> [ft EXCEPT !.Default = part.v]
           [] part.k = "comment" -> [ft EXCEPT !.Comment = part.v]
           [] part.k = "index" -> [ft EXCEPT !.Index = part.v]
           [] OTHER -> ft

RECURSIVE parseFrom(_, _, _)
parseFrom(ft, tag, i) ==
    IF i > Len(tag) THEN ft ELSE parseFrom(parseSeg(ft, i, tag[i]), tag, i + 1)

parseFieldTag(tag) == parseFrom(ZeroFieldTag, tag, 1)

\* ---- dialects ----
Dialects == {"mysql", "postgres", "sqlite", "sqlserver"}
GoKinds == {"bool", "int", "int32", "int64", "float32", "float64", "string", "time.Time", "uint"}

\* a column type: a word with an optional length, or the text of a type: tag
Ty(base, n) == [base |-> base, n |-> n, lit |-> <<>>]
TyLit(v) == [base |-> "lit", n |-> 0, lit |-> v]

MySQLDialect_DataType(kind, size) ==
    CASE kind = "bool" -> Ty("BOOLEAN", 0)
      [] kind \in {"int", "int32"} -> Ty("INT", 0)
      [] kind = "int64" -> Ty("BIGINT", 0)
      [] kind = "float32" -> Ty("FLOAT", 0)
      [] kind = "float64" -> Ty("DOUBLE", 0)
      [] kind = "string" -> IF size > 0 /\ size <= 255 THEN Ty("VARCHAR", size) ELSE Ty("TEXT", 0)
      [] kind = "time.Time" -> Ty("DATETIME", 0)
      [] OTHER -> Ty("TEXT", 0)

PostgreSQLDialect_DataType(kind, size) ==
    CASE kind = "bool" -> Ty("BOOLEAN", 0)
      [] kind \in {"int", "int32"} -> Ty("INTEGER", 0)
      [] kind = "int64" -> Ty("BIGINT", 0)
      [] kind = "float32" -> Ty("REAL", 0)
      [] kind = "float64" -> Ty("DOUBLE PRECISION", 0)
      [] kind = "string" -> IF size > 0 THEN Ty("VARCHAR", size) ELSE Ty("TEXT", 0)
      [] kind = "time.Time" -> Ty("TIMESTAMP", 0)
      [] OTHER -> Ty("TEXT", 0)

SQLiteDialect_DataType(kind, size) ==
    CASE kind = "bool" -> Ty("INTEGER", 0)
      [] kind \in {"int", "int32", "int64"} -> Ty("INTEGER", 0)
      [] kind \in {"float32", "float64"} -> Ty("REAL", 0)
      [] kind = "string" -> Ty("TEXT", 0)
      [] kind = "time.Time" -> Ty("DATETIME", 0)
      [] OTHER -> Ty("TEXT", 0)

SQLServerDialect_DataType(kind, size) ==
    CASE kind = "bool" -> Ty("BIT", 0)
      [] kind \in {"int", "int32"} -> Ty("INT", 0)
      [] kind = "int64" -> Ty("BIGINT", 0)
      [] kind = "float32" -> Ty("REAL", 0)
      [] kind = "float64" -> Ty("FLOAT", 0)
      [] kind = "string" -> IF size > 0 /\ size <= 4000 THEN Ty("NVARCHAR", size) ELSE Ty("NTEXT", 0)
      [] kind = "time.Time" -> Ty("DATETIME2", 0)
      [] OTHER -> Ty("NTEXT", 0)

Dialect_DataType(d, kind, size) ==
    CASE d = "mysql" -> MySQLDialect_DataType(kind, size)
      [] d = "postgres" -> PostgreSQLDialect_DataType(kind, size)
      [] d = "sqlite" -> SQLiteDialect_DataType(kind, size)
      [] OTHER -> SQLServerDialect_DataType(kind, size)

\* ---- record types ----
\* a field: its Go name, its kind and its orm tag
Field(name, kind, tag) == [name |-> name, kind |-> kind, tag |-> tag]

\* field.IsExported(): the name starts with an upper-case letter
IsExported(f) == f.name[1] \in UpperLetters

\* ID int64 `orm:"id,primary,auto_increment"`
IdField ==
    Field(<<"I", "D">>, "int64",
          <<SegText(<<"i", "d">>), SegFlag("primary"), SegFlag("auto_increment")>>)

\* Name string `orm:"name,size:100,not_null"`
NameField ==
    Field(<<"N", "a", "m", "e">>, "string",
          <<SegText(<<"n", "a", "m", "e">>), SegSize(100), SegFlag("not_null")>>)

FieldSet ==
    { IdField,
      NameField,
      Field(<<"U", "s", "e", "r", "N", "a", "m", "e">>, "string",
            <<SegText(<<"u", "s", "e", "r", "N", "a", "m", "e">>), SegSize(50)>>),
      Field(<<"A", "g", "e">>, "int", <<>>),
      Field(<<"N", "i", "c", "k">>, "string", <<SegEmpty, SegSize(20), SegFlag("unique")>>),
      Field(<<"p", "w">>, "string", <<>>),
      Field(<<"P", "a", "s", "s">>, "string", DashTag),
      Field(<<"C", "o", "d", "e">>, "string",
            <<SegText(<<"c", "o", "d", "e">>), SegFlag("primary"), SegKV("type", <<"c", "h", "a", "r">>),
              SegSize(8)>>),
      Field(<<"N", "o", "t", "e">>, "string",
            <<SegText(<<"n", "o", "t", "e">>), SegSize(300), SegKV("default", <<"x">>),
              SegKV("comment", <<"c">>)>>) }

MaxFields == 2

\* record types: up to MaxFields fields with distinct names, in declaration order
RecordTypes ==
    {t \in UNION {[1..n -> FieldSet] : n \in 1..MaxFields} :
        \A i, j \in 1..Len(t) : i # j => t[i].name # t[j].name}

TypeName == <<"U", "s", "e", "r">>

\* getColumnType: the type: of the tag, else the dialect's type for the kind
\* and the tag's size
getColumnType(d, kind, ft) ==
    IF ft.Type # <<>> THEN TyLit(ft.Type) ELSE Dialect_DataType(d, kind, ft.Size)

\* an interface{} holding a string, and the nil interface{}
IfaceString(v) == [set |-> TRUE, v |-> v]
NoDefault == [set |-> FALSE, v |-> <<>>]

\* the ColumnInfo getColumns builds for one mapped field; Default is an
\* interface{} given the tag's Default string, so it is never nil
columnOf(d, f) ==
    LET ft0 == parseFieldTag(f.tag)
        ft == IF ft0.Column = <<>> THEN [ft0 EXCEPT !.Column = camelToSnake(f.name)] ELSE ft0
    IN  [Name |-> ft.Column, GoName |-> f.name, Type |-> getColumnType(d, f.kind, ft),
         Primary |-> ft.Primary, AutoIncrement |-> ft.AutoIncrement, NotNull |-> ft.NotNull,
         Unique |-> ft.Unique, Default |-> IfaceString(ft.Default), Comment |-> ft.Comment,
         Index |-> ft.Index, Size |-> ft.Size]

RECURSIVE getColumnsFrom(_, _, _)
getColumnsFrom(d, t, i) ==
    IF i > Len(t) THEN <<>>
    ELSE (IF ~IsExported(t[i]) \/ t[i].tag = DashTag THEN <<>> ELSE <<columnOf(d, t[i])>>)
         \o getColumnsFrom(d, t, i + 1)

\* getColumns: unexported fields and fields tagged "-" are skipped
getColumns(d, t) == getColumnsFrom(d, t, 1)

\* ModelManager.getTableName: TableName() when it gives a name, else the
\* snake form of the type's name
ModelManager_getTableName(tableName) ==
    IF tableName # <<>> THEN tableName ELSE camelToSnake(TypeName)

\* what is handed to GetTableInfo: a record, a pointer to one, or something else
ModelKinds == {"struct", "ptrStruct", "int", "ptrInt"}

NilTableInfo == [isNil |-> TRUE, Name |-> <<>>, Columns |-> <<>>]

\* GetTableInfo: nil for anything but a struct or a pointer to one; the
\* function has one result, no error
GetTableInfo(d, modelKind, t, tableName) ==
    IF modelKind \notin {"struct", "ptrStruct"}
    THEN NilTableInfo
    ELSE [isNil |-> FALSE, Name |-> ModelManager_getTableName(tableName),
          Columns |-> getColumns(d, t)]

\* ---- columns of INSERT and UPDATE ----
\* the column name extractColumnsAndValues gives one field: the first tag
\* segment when the tag has one, else the field's name, put through camelToSnake
extractColumn(f) ==
    LET columnName == IF f.tag # <<>> /\ f.tag[1].v # <<>> THEN f.tag[1].v ELSE f.name
    IN  camelToSnake(columnName)

RECURSIVE extractFrom(_, _)
extractFrom(t, i) ==
    IF i > Len(t) THEN <<>>
    ELSE (IF ~IsExported(t[i]) \/ t[i].tag = DashTag THEN <<>> ELSE <<i>>)
         \o extractFrom(t, i + 1)

\* extractColumnsAndValues on a record of type t with field values vals: the
\* columns and the values of the exported fields not tagged "-", zero values
\* included
extractColumnsAndValues(t, vals) ==
    LET idx == extractFrom(t, 1)
    IN  [columns |-> [k \in 1..Len(idx) |-> extractColumn(t[idx[k]])],
         values |-> [k \in 1..Len(idx) |-> vals[idx[k]]]]

\* ---- CREATE TABLE text ----
\* DDL text is a sequence of tokens: words, quoted identifiers, column types,
\* bare texts (a default value) and quoted strings (a comment)
DWord(w) == [t |-> "word", s |-> w, v |-> <<>>, n |-> 0]
DIdent(q, name) == [t |-> "ident", s |-> q, v |-> name, n |-> 0]
DType(ty) == [t |-> "type", s |-> ty.base, v |-> ty.lit, n |-> ty.n]
DText(v) == [t |-> "text", s |-> "", v |-> v, n |-> 0]
DString(v) == [t |-> "string", s |-> "'", v |-> v, n |-> 0]

\* Quote: back quotes for MySQL and SQLite, double quotes for PostgreSQL,
\* brackets for SQL Server; the identifier token names its quoting
Dialect_Quote(d, name) ==
    DIdent(CASE d \in {"mysql", "sqlite"} -> "backquote" [] d = "postgres" -> "doublequote"
             [] OTHER -> "bracket", name)

RECURSIVE doubleQuotesFrom(_, _)
doubleQuotesFrom(v, i) ==
    IF i > Len(v) THEN <<>>
    ELSE (IF v[i] = "'" THEN <<"'", "'">> ELSE <<v[i]>>) \o doubleQuotesFrom(v, i + 1)

\* QuoteString: every quote doubled, the whole in quotes
Dialect_QuoteString(v) == DString(doubleQuotesFrom(v, 1))

Dialect_AutoIncrement(d) ==
    DWord(CASE d = "mysql" -> "AUTO_INCREMENT" [] d = "postgres" -> "SERIAL"
            [] d = "sqlite" -> "AUTOINCREMENT" [] OTHER -> "IDENTITY(1,1)")

Dialect_PrimaryKey == DWord("PRIMARY KEY")

\* CreateTable: the ColumnDefinition of a ColumnInfo
columnDef(col) ==
    [Name |-> col.Name, Type |-> col.Type, Size |-> col.Size, NotNull |-> col.NotNull,
     Primary |-> col.Primary, AutoIncrement |-> col.AutoIncrement, Unique |-> col.Unique,
     Default |-> col.Default, Comment |-> col.Comment]

Opt(cond, toks) == IF cond THEN toks ELSE <<>>

\* the text of one column in CreateTableSQL, per dialect
ColumnPart(d, col) ==
    LET head == <<Dialect_Quote(d, col.Name), DType(col.Type)>>
        notNull == Opt(col.NotNull, <<DWord("NOT NULL")>>)
        auto == Opt(col.AutoIncrement, <<Dialect_AutoIncrement(d)>>)
        dflt == Opt(col.Default.set, <<DWord("DEFAULT"), DText(col.Default.v)>>)
    IN  CASE d = "mysql" ->
               head \o notNull \o auto \o dflt
                    \o Opt(col.Comment # <<>>, <<DWord("COMMENT"), Dialect_QuoteString(col.Comment)>>)
          [] d = "postgres" -> head \o notNull \o dflt
          [] d = "sqlite" ->
               head \o Opt(col.Primary, <<Dialect_PrimaryKey>>) \o auto \o notNull \o dflt
          [] OTHER -> head \o auto \o notNull \o dflt

\* faulty variant: the primary keys are collected last column first
PrimaryKeys_Reversed(d, columns) ==
    LET pk == SelectSeq(columns, LAMBDA c : c.Primary)
    IN  [k \in 1..Len(pk) |-> <<Dialect_Quote(d, pk[Len(pk) + 1 - k].Name)>>]

\* primaryKeys: the quoted names of the primary columns, in column order
PrimaryKeys(d, columns) ==
    LET pk == SelectSeq(columns, LAMBDA c : c.Primary)
    IN  [k \in 1..Len(pk) |-> <<Dialect_Quote(d, pk[k].Name)>>]

\* CreateTableSQL: the column texts in order; MySQL, PostgreSQL and SQL Server
\* add one PRIMARY KEY (...) clause when a column is primary, SQLite has none
Dialect_CreateTableSQL(d, tableName, columns) ==
    LET colParts == [k \in 1..Len(columns) |-> ColumnPart(d, columns[k])]
        pks == PrimaryKeys(d, columns)
        parts == IF d # "sqlite" /\ Len(pks) > 0
                 THEN Append(colParts, <<Dialect_PrimaryKey, DWord("(")>>
                                       \o JoinTok(pks, <<DWord(", ")>>) \o <<DWord(")")>>)
                 ELSE colParts
    IN  <<DWord("CREATE TABLE"), Dialect_Quote(d, tableName), DWord("(")>>
        \o JoinTok(parts, <<DWord(", ")>>) \o <<DWord(")")>>

\* ---- INSERT and UPDATE statements ----
\* a statement: its verb, its table, its column list, the number of value
\* rows (each row has one "?" per column) and its arguments
Stmt(verb, table, columns, rows, args) ==
    [stmt |-> verb, table |-> table, columns |-> columns, rows |-> rows, args |-> args]

\* ORM.getTableName, for the builder Model(model) gives: TableName() when the
\* type has one, else the snake form of the type's name
ORM_getTableName(tableName) ==
    IF tableName # <<>> THEN tableName ELSE camelToSnake(TypeName)

buildInsertSQL(table, t, vals) ==
    LET e == extractColumnsAndValues(t, vals)
    IN  Stmt("INSERT", table, e.columns, 1, e.values)

RECURSIVE batchValues(_, _)
batchValues(t, recs) ==
    IF recs = <<>> THEN <<>>
    ELSE extractColumnsAndValues(t, Head(recs)).values \o batchValues(t, Tail(recs))

\* buildBatchInsertSQL on a slice of records: no statement for an empty slice,
\* else the columns of the first record and the values of every record
buildBatchInsertSQL(table, t, recs) ==
    IF recs = <<>> THEN Stmt("", <<>>, <<>>, 0, <<>>)
    ELSE Stmt("INSERT", table, extractColumnsAndValues(t, recs[1]).columns, Len(recs),
              batchValues(t, recs))

\* buildUpdateSQL on a builder without conditions: SET column = ? per column
buildUpdateSQL(table, t, vals) ==
    LET e == extractColumnsAndValues(t, vals)
    IN  Stmt("UPDATE", table, e.columns, 1, e.values)

\* ---- the database behind Exec ----
\* The table keeps the key of each row when it has one primary column and that
\* column is auto-increment. A row written without the key column gets the
\* next key. A key written explicitly is stored as written and a key already
\* present is rejected; MySQL alone treats an explicit 0 as no value.
KeyColumn(cols) ==
    LET pk == SelectSeq(cols, LAMBDA c : c.Primary)
    IN  IF Len(pk) = 1 /\ pk[1].AutoIncrement THEN pk[1].Name ELSE <<>>

ColumnNames(cols) == {cols[k].Name : k \in 1..Len(cols)}

NextKey(keys) == IF keys = {} THEN 1 ELSE 1 + CHOOSE m \in keys : \A k \in keys : k <= m

RECURSIVE storeRows(_, _, _, _, _)
storeRows(d, keys, stmt, pos, r) ==
    IF r > stmt.rows THEN [ok |-> TRUE, keys |-> keys]
    ELSE LET given == IF pos = 0 THEN 0 ELSE stmt.args[(r - 1) * Len(stmt.columns) + pos]
             assigned == pos = 0 \/ (d = "mysql" /\ given = 0)
             key == IF assigned THEN NextKey(keys) ELSE given
         IN  IF key \in keys THEN [ok |-> FALSE, keys |-> keys]
             ELSE storeRows(d, keys \cup {key}, stmt, pos, r + 1)

Engine_Insert(d, made, cols, keys, stmt) ==
    IF ~made \/ \E j \in 1..Len(stmt.columns) : stmt.columns[j] \notin ColumnNames(cols)
    THEN [ok |-> FALSE, keys |-> keys]
    ELSE IF KeyColumn(cols) = <<>> THEN [ok |-> TRUE, keys |-> keys]
    ELSE LET kc == KeyColumn(cols)
             at == {j \in 1..Len(stmt.columns) : stmt.columns[j] = kc}
             pos == IF at = {} THEN 0 ELSE CHOOSE j \in at : TRUE
             res == storeRows(d, keys, stmt, pos, 1)
         IN  IF res.ok THEN res ELSE [ok |-> FALSE, keys |-> keys]

\* a fresh record of type t: the auto-increment field is left zero, every other
\* field holds a value
FreshRecord(t) ==
    [i \in 1..Len(t) |-> IF parseFieldTag(t[i].tag).AutoIncrement THEN 0 ELSE 1]

MaxGets == 2
MaxInserts == 2
BatchSizes == {1, 2}
TableNames == {<<>>, <<"u", "s", "e", "r", "s">>}

MdFrame == UNCHANGED <<ormVars, txVars, qbVars, mmVars, gmVars, glVars, extVars>>

\* ModelManager.GetTableInfo(model)
MdGetTableInfo ==
    /\ mdIntro < MaxGets
    /\ \E kind \in ModelKinds :
         /\ mdInfo' = [called |-> TRUE, kind |-> kind, err |-> Nil,
                       info |-> GetTableInfo(mdDialect, kind, mdType, mdTableName)]
         /\ mdIntro' = IF kind \in {"struct", "ptrStruct"} THEN mdIntro + 1 ELSE mdIntro
    /\ UNCHANGED <<mdDialect, mdType, mdTableName, mdDDL, mdStmt, tblMade, tblCols, tblKeys, insLog>>
    /\ MdFrame

\* ModelManager.CreateTable(&T{}): GetTableInfo, the column definitions,
\* CreateTableSQL, Exec; the database refuses a table that exists
MdCreateTable ==
    /\ mdIntro < MaxGets
    /\ \E info \in {GetTableInfo(mdDialect, "ptrStruct", mdType, mdTableName)} :
       \E defs \in {[k \in 1..Len(info.Columns) |-> columnDef(info.Columns[k])]} :
         /\ mdDDL' = [cols |-> defs, sql |-> Dialect_CreateTableSQL(mdDialect, info.Name, defs)]
         /\ tblMade' = TRUE
         /\ tblCols' = IF tblMade THEN tblCols ELSE defs
    /\ mdIntro' = mdIntro + 1
    /\ UNCHANGED <<mdDialect, mdType, mdTableName, mdInfo, mdStmt, tblKeys, insLog>>
    /\ MdFrame

\* AutoMigrate(&T{}): HasTable, and CreateTable when the table is absent
MdAutoMigrate ==
    /\ ~tblMade
    /\ \E info \in {GetTableInfo(mdDialect, "ptrStruct", mdType, mdTableName)} :
       \E defs \in {[k \in 1..Len(info.Columns) |-> columnDef(info.Columns[k])]} :
         /\ mdDDL' = [cols |-> defs, sql |-> Dialect_CreateTableSQL(mdDialect, info.Name, defs)]
         /\ tblMade' = TRUE
         /\ tblCols' = defs
    /\ mdIntro' = mdIntro + 1
    /\ UNCHANGED <<mdDialect, mdType, mdTableName, mdInfo, mdStmt, tblKeys, insLog>>
    /\ MdFrame

\* Model(&T{}).Insert(fresh record)
MdInsert ==
    /\ Len(insLog) < MaxInserts
    /\ \E stmt \in {buildInsertSQL(ORM_getTableName(mdTableName), mdType, FreshRecord(mdType))} :
       \E res \in {Engine_Insert(mdDialect, tblMade, tblCols, tblKeys, stmt)} :
         /\ mdStmt' = stmt
         /\ tblKeys' = res.keys
         /\ insLog' = Append(insLog, [op |-> "Insert", n |-> 1, made |-> tblMade, ok |-> res.ok])
    /\ UNCHANGED <<mdDialect, mdType, mdTableName, mdInfo, mdIntro, mdDDL, tblMade, tblCols>>
    /\ MdFrame

\* Model(&T{}).InsertBatch(slice of fresh records)
MdInsertBatch ==
    /\ Len(insLog) < MaxInserts
    /\ \E n \in BatchSizes :
       \E stmt \in {buildBatchInsertSQL(ORM_getTableName(mdTableName), mdType,
                                         [i \in 1..n |-> FreshRecord(mdType)])} :
       \E res \in {Engine_Insert(mdDialect, tblMade, tblCols, tblKeys, stmt)} :
         /\ mdStmt' = stmt
         /\ tblKeys' = res.keys
         /\ insLog' = Append(insLog, [op |-> "InsertBatch", n |-> n, made |-> tblMade, ok |-> res.ok])
    /\ UNCHANGED <<mdDialect, mdType, mdTableName, mdInfo, mdIntro, mdDDL, tblMade, tblCols>>
    /\ MdFrame

\* Model(&T{}).Update(record): the statement it builds
MdUpdate ==
    /\ mdStmt.stmt # "UPDATE"
    /\ mdStmt' = buildUpdateSQL(ORM_getTableName(mdTableName), mdType, FreshRecord(mdType))
    /\ UNCHANGED <<mdDialect, mdType, mdTableName, mdInfo, mdIntro, mdDDL, tblMade, tblCols,
                   tblKeys, insLog>>
    /\ MdFrame

\* ---- CreateTableSQL on column lists given directly ----
MaxCols == 2

ColDef(name, ty, notNull, primary, auto, dflt, comment) ==
    [Name |-> name, Type |-> ty, Size |-> 0, NotNull |-> notNull, Primary |-> primary,
     AutoIncrement |-> auto, Unique |-> FALSE, Default |-> dflt, Comment |-> comment]

ColNames == {<<"i", "d">>, <<"n", "a", "m", "e">>, <<"c", "o", "d", "e">>}

\* the default and the comment of a column: neither, a default, or a comment
\* holding a quote
ColExtras ==
    {[d |-> NoDefault, c |-> <<>>], [d |-> IfaceString(<<"0">>), c |-> <<>>],
     [d |-> NoDefault, c |-> <<"i", "t", "'", "s">>]}

ColDefSet ==
    {ColDef(n, IF n = <<"i", "d">> THEN Ty("INT", 0) ELSE Ty("VARCHAR", 100), nn, pr, au, x.d, x.c) :
        n \in ColNames, nn \in BOOLEAN, pr \in BOOLEAN, au \in BOOLEAN, x \in ColExtras}

\* column lists: up to MaxCols columns with distinct names
ColumnLists ==
    {cs \in UNION {[1..n -> ColDefSet] : n \in 1..MaxCols} :
        \A i, j \in 1..Len(cs) : i # j => cs[i].Name # cs[j].Name}

\* dialect.CreateTableSQL(tableName, columns)
MdCreateTableSQL ==
    /\ mdDDL.sql = <<>>
    /\ \E cols \in ColumnLists :
         mdDDL' = [cols |-> cols,
                   sql |-> Dialect_CreateTableSQL(mdDialect, ORM_getTableName(mdTableName), cols)]
    /\ UNCHANGED <<mdDialect, mdType, mdTableName, mdInfo, mdIntro, mdStmt, tblMade, tblCols,
                   tblKeys, insLog>>
    /\ MdFrame

\* The caller goes on to its next CreateTableSQL call.
MdDdlNext ==
    /\ mdDDL.sql # <<>>
    /\ mdDDL' = [cols |-> <<>>, sql |-> <<>>]
    /\ UNCHANGED <<mdDialect, mdType, mdTableName, mdInfo, mdIntro, mdStmt, tblMade, tblCols,
                   tblKeys, insLog>>
    /\ MdFrame

\* any dialect, no record type involved
InitDDL ==
    /\ ormDb = "open"
    /\ dbRows = {}
    /\ InitTxVars /\ InitQbVars /\ InitMmVars /\ InitGmVars /\ InitGlVars /\ InitExtVars
    /\ mdDialect \in Dialects
    /\ mdType = <<>>
    /\ mdTableName = <<"u", "s", "e", "r", "s">>
    /\ MdStart

NextDDL ==
    \/ MdCreateTableSQL
    \/ MdDdlNext

SpecDDL == InitDDL /\ [][NextDDL]_vars

\* any dialect, any record type, on a connected handle
InitModel ==
    /\ ormDb = "open"
    /\ dbRows = {}
    /\ InitTxVars /\ InitQbVars /\ InitMmVars /\ InitGmVars /\ InitGlVars /\ InitExtVars
    /\ mdDialect \in Dialects
    /\ mdType \in RecordTypes
    /\ mdTableName \in TableNames
    /\ MdStart

NextModel ==
    \/ MdGetTableInfo
    \/ MdCreateTable

SpecModel == InitModel /\ [][NextModel]_vars

\* the records inserted have the auto-increment key as their first field
InsertTypes == {t \in RecordTypes : t[1] = IdField}

InitInsert ==
    /\ ormDb = "open"
    /\ dbRows = {}
    /\ InitTxVars /\ InitQbVars /\ InitMmVars /\ InitGmVars /\ InitGlVars /\ InitExtVars
    /\ mdDialect \in Dialects
    /\ mdType \in InsertTypes
    /\ mdTableName \in TableNames
    /\ MdStart

NextInsert ==
    \/ MdAutoMigrate
    \/ MdInsert
    \/ MdInsertBatch
    \/ MdUpdate

SpecInsert == InitInsert /\ [][NextInsert]_vars

\* ---------------------------------------------------------------------------
\* Model mapper, dialect and INSERT: properties
\* ---------------------------------------------------------------------------
\* the columns the mapper derives for the type in use
MappedNames ==
    LET cols == getColumns(mdDialect, mdType)
    IN  [k \in 1..Len(cols) |-> cols[k].Name]

\* every column Insert writes is a column the mapper derives
InsertColumnsKnown ==
    LET e == extractColumnsAndValues(mdType, FreshRecord(mdType))
    IN  \A j \in 1..Len(e.columns) : \E k \in 1..Len(MappedNames) : MappedNames[k] = e.columns[j]

RECURSIVE RowsStored(_)
RowsStored(log) ==
    IF log = <<>> THEN 0
    ELSE (IF Head(log).ok THEN Head(log).n ELSE 0) + RowsStored(Tail(log))

\* C15: every Insert and InsertBatch of fresh records (auto-increment key left
\* zero) into the migrated table succeeds, and each row stored has its own
\* key: the zero key is not written as a value that collides.
C15_FreshInsertsGetDistinctKeys ==
    InsertColumnsKnown =>
        /\ \A i \in 1..Len(insLog) : insLog[i].made => insLog[i].ok
        /\ Cardinality(tblKeys) = RowsStored(insLog)

\* C16: the column names Insert, InsertBatch and Update put into their
\* statement are the column names the mapper derives (the ones CreateTable
\* uses), in the same order.
C16_StatementColumnsAreMappedColumns ==
    mdStmt.stmt \in {"INSERT", "UPDATE"} => mdStmt.columns = MappedNames

\* C17: GetTableInfo given something that is not a record or a pointer to one
\* reports an explicit error; it never gives a nil result without one.
C17_NonStructIsExplicitError ==
    mdInfo.called =>
        /\ mdInfo.kind \notin {"struct", "ptrStruct"} => mdInfo.err # Nil
        /\ mdInfo.info.isNil => mdInfo.err # Nil

\* C18: the metadata of a record type is computed at most once: calls after
\* the first do not introspect the type again.
C18_IntrospectedAtMostOnce ==
    mdIntro <= 1

\* the field of the type in use a column was derived from
FieldOf(col) == CHOOSE i \in 1..Len(mdType) : mdType[i].name = col.GoName

\* C19: for every mapped field whose tag holds size:N the derived column's
\* Size is N, and without a type: override its Type is the dialect's type for
\* the field's kind and N.
C19_SizeIsTagSize ==
    (mdInfo.called /\ ~mdInfo.info.isNil) =>
        \A k \in 1..Len(mdInfo.info.Columns) :
            LET col == mdInfo.info.Columns[k]
                tag == mdType[FieldOf(col)].tag
                kind == mdType[FieldOf(col)].kind
            IN  \A j \in 2..Len(tag) :
                    tag[j].k = "size" =>
                        /\ col.Size = tag[j].n
                        /\ (\A m \in 2..Len(tag) : tag[m].k # "type") =>
                               col.Type = Dialect_DataType(mdDialect, kind, tag[j].n)

\* places in a CREATE TABLE text: where a column starts (a quoted name
\* followed by a type) and where a PRIMARY KEY ( clause opens
ColStarts(sql) == {i \in 1..(Len(sql) - 1) : sql[i].t = "ident" /\ sql[i + 1].t = "type"}
PkOpens(sql) ==
    {i \in 1..(Len(sql) - 1) : sql[i] = DWord("PRIMARY KEY") /\ sql[i + 1] = DWord("(")}
NthOf(S, k) == CHOOSE i \in S : Cardinality({j \in S : j < i}) = k - 1

\* {id: primary, auto-increment; name: not-null}
ExampleColumns ==
    <<ColDef(<<"i", "d">>, Ty("INT", 0), FALSE, TRUE, TRUE, NoDefault, <<>>),
      ColDef(<<"n", "a", "m", "e">>, Ty("VARCHAR", 100), TRUE, FALSE, FALSE, NoDefault, <<>>)>>

\* C20: in every dialect the CREATE TABLE text holds the columns in
\* declaration order; MySQL, PostgreSQL and SQL Server end it with exactly one
\* PRIMARY KEY clause listing the primary columns in declaration order (none
\* when no column is primary), SQLite marks each primary column in place; for
\* {id primary auto-increment, name not-null} the MySQL text is
\* `id` type AUTO_INCREMENT, `name` type NOT NULL, PRIMARY KEY (`id`).
C20_CreateTableText ==
    mdDDL.sql # <<>> =>
        LET sql == mdDDL.sql
            cols == mdDDL.cols
            d == mdDialect
            starts == ColStarts(sql)
            opens == PkOpens(sql)
            pk == SelectSeq(cols, LAMBDA c : c.Primary)
        IN  /\ Cardinality(starts) = Len(cols)
            /\ \A k \in 1..Len(cols) :
                 /\ sql[NthOf(starts, k)] = Dialect_Quote(d, cols[k].Name)
                 /\ sql[NthOf(starts, k) + 1] = DType(cols[k].Type)
            /\ d # "sqlite" =>
                 /\ Cardinality(opens) = IF pk = <<>> THEN 0 ELSE 1
                 /\ \A i \in opens :
                      /\ \A j \in starts : j < i
                      /\ Len(sql) = i + 2 * Len(pk) + 2
                      /\ \A k \in 1..Len(pk) : sql[i + 2 * k] = Dialect_Quote(d, pk[k].Name)
                      /\ sql[Len(sql) - 1] = DWord(")")
                      /\ sql[Len(sql)] = DWord(")")
            /\ d = "sqlite" =>
                 /\ opens = {}
                 /\ \A k \in 1..Len(cols) :
                      (sql[NthOf(starts, k) + 2] = DWord("PRIMARY KEY")) <=> cols[k].Primary
            /\ (d = "mysql" /\ cols = ExampleColumns) =>
                 sql = <<DWord("CREATE TABLE"), DIdent("backquote", ORM_getTableName(mdTableName)),
                         DWord("("),
                         DIdent("backquote", <<"i", "d">>), DType(cols[1].Type),
                         DWord("AUTO_INCREMENT"), DWord(", "),
                         DIdent("backquote", <<"n", "a", "m", "e">>), DType(cols[2].Type),
                         DWord("NOT NULL"), DWord(", "),
                         DWord("PRIMARY KEY"), DWord("("), DIdent("backquote", <<"i", "d">>),
                         DWord(")"), DWord(")")>>

\* the MySQL text for {id primary auto-increment, name not-null} was built
C20_Witness ==
    /\ mdDialect = "mysql"
    /\ mdDDL.cols = ExampleColumns
    /\ mdDDL.sql # <<>>


\* ---------------------------------------------------------------------------
\* Schema builder: the callbacks of CreateTable and AlterTable, the statements
\* they generate and their execution; BaseMigration.DropColumn. The handle is
\* connected; the database answers each statement with success or an error.
\* A statement that succeeded is applied: nothing here takes it back.
\* ---------------------------------------------------------------------------
MaxCalls == 3

SbTable == <<"u", "s", "e", "r", "s">>
\* the names given to String, to Integer and to DropColumn
StringNames == {<<"e", "m", "a", "i", "l">>, <<"n", "i", "c", "k">>}
IntegerNames == {<<"a", "g", "e">>}
SbNames == StringNames \cup IntegerNames
SbDefaults == {<<"0">>}
SbComments == {<<"n", "o", "t", "e">>}
StringLengths == {<<>>, <<100>>}
ExecResults == {RetNil, RetErr("e1")}

\* String's length when none is given
StringSize == 255

\* an AlterOperation; Data is the column definition (ADD_COLUMN) or the
\* column name (DROP_COLUMN), kept here as Col and Name
AlterOp(type, col, name) == [Type |-> type, Col |-> col, Name |-> name]

\* a "-- ..." text: table.column
DComment(v) == [t |-> "comment", s |-> "--", v |-> v, n |-> 0]

NewTableBuilder(tableName) == [NoBuilder EXCEPT !.tableName = tableName]

SetAlterMode(t, alter) == [t EXCEPT !.alterMode = alter]

\* ID(): always one more entry of tb.columns
tableBuilder_ID(t) ==
    [t EXCEPT !.columns =
        Append(@, ColDef(<<"i", "d">>, Ty("BIGINT", 0), TRUE, TRUE, TRUE, NoDefault, <<>>))]

\* the end of String, Integer and the other typed declarators: an ADD_COLUMN
\* operation in alter mode, else one more entry of tb.columns
tableBuilder_declare(t, col) ==
    IF t.alterMode
    THEN [t EXCEPT !.alterOps = Append(@, AlterOp("ADD_COLUMN", col, col.Name))]
    ELSE [t EXCEPT !.columns = Append(@, col)]

tableBuilder_String(t, name, length) ==
    LET size == IF Len(length) > 0 THEN length[1] ELSE StringSize
        columnType == IF size > 0 THEN Ty("VARCHAR", size) ELSE Ty("VARCHAR", 0)
    IN  tableBuilder_declare(t,
            [ColDef(name, columnType, FALSE, FALSE, FALSE, NoDefault, <<>>) EXCEPT !.Size = size])

tableBuilder_Integer(t, name) ==
    tableBuilder_declare(t, ColDef(name, Ty("INT", 0), FALSE, FALSE, FALSE, NoDefault, <<>>))

\* the modifiers: the last entry of tb.columns, when there is one
tableBuilder_Nullable(t) ==
    IF Len(t.columns) > 0 THEN [t EXCEPT !.columns[Len(t.columns)].NotNull = FALSE] ELSE t

tableBuilder_NotNull(t) ==
    IF Len(t.columns) > 0 THEN [t EXCEPT !.columns[Len(t.columns)].NotNull = TRUE] ELSE t

tableBuilder_Default(t, value) ==
    IF Len(t.columns) > 0
    THEN [t EXCEPT !.columns[Len(t.columns)].Default = IfaceString(value)] ELSE t

tableBuilder_Comment(t, comment) ==
    IF Len(t.columns) > 0 THEN [t EXCEPT !.columns[Len(t.columns)].Comment = comment] ELSE t

tableBuilder_AutoIncrement(t) ==
    IF Len(t.columns) > 0 THEN [t EXCEPT !.columns[Len(t.columns)].AutoIncrement = TRUE] ELSE t

\* DropColumn: a DROP_COLUMN operation in alter mode, nothing otherwise
tableBuilder_DropColumn(t, columnName) ==
    IF t.alterMode
    THEN [t EXCEPT !.alterOps =
            Append(@, AlterOp("DROP_COLUMN",
                              ColDef(columnName, Ty("none", 0), FALSE, FALSE, FALSE, NoDefault, <<>>),
                              columnName))]
    ELSE t

\* AddColumnSQL: the table, the column and definition.Type, nothing else of
\* the definition
Dialect_AddColumnSQL(d, tableName, columnName, definition) ==
    <<DWord("ALTER TABLE"), Dialect_Quote(d, tableName),
      DWord(IF d = "sqlserver" THEN "ADD" ELSE "ADD COLUMN"),
      Dialect_Quote(d, columnName), DType(definition.Type)>>

\* DropColumnSQL: SQLite gives a comment text
Dialect_DropColumnSQL(d, tableName, columnName) ==
    IF d = "sqlite"
    THEN <<DComment(tableName \o <<".">> \o columnName)>>
    ELSE <<DWord("ALTER TABLE"), Dialect_Quote(d, tableName), DWord("DROP COLUMN"),
           Dialect_Quote(d, columnName)>>

tableBuilder_ToSQL(d, t) == Dialect_CreateTableSQL(d, t.tableName, t.columns)

\* faulty variant: the statements come out last operation first
tableBuilder_ToAlterSQLs_Reversed(d, t) ==
    [k \in 1..Len(t.alterOps) |->
        LET op == t.alterOps[Len(t.alterOps) + 1 - k]
        IN  IF op.Type = "ADD_COLUMN"
            THEN Dialect_AddColumnSQL(d, t.tableName, op.Col.Name, op.Col)
            ELSE Dialect_DropColumnSQL(d, t.tableName, op.Name)]

\* ToAlterSQLs: one statement per operation, in the order of tb.alterOps
tableBuilder_ToAlterSQLs(d, t) ==
    [k \in 1..Len(t.alterOps) |->
        LET op == t.alterOps[k]
        IN  IF op.Type = "ADD_COLUMN"
            THEN Dialect_AddColumnSQL(d, t.tableName, op.Col.Name, op.Col)
            ELSE Dialect_DropColumnSQL(d, t.tableName, op.Name)]

SbFrame == UNCHANGED <<ormVars, txVars, qbVars, mmVars, gmVars, glVars, mdVars, hxVars, amVars, fsVars>>

\* the names the callback declared so far
SbDeclared == {sbCalls[k].name : k \in 1..Len(sbCalls)}

\* schema.CreateTable(tableName, callback): NewTableBuilder, then the callback
SbCreateTable ==
    /\ sbPc = "idle"
    /\ tb' = NewTableBuilder(SbTable)
    /\ sbKind' = "CreateTable"
    /\ sbPc' = "callback"
    /\ UNCHANGED <<sbCalls, sbBefore, sbQueue, sbSent, sbRet>>
    /\ SbFrame

\* schema.AlterTable(tableName, callback): NewTableBuilder, SetAlterMode(true),
\* then the callback
SbAlterTable ==
    /\ sbPc = "idle"
    /\ tb' = SetAlterMode(NewTableBuilder(SbTable), TRUE)
    /\ sbKind' = "AlterTable"
    /\ sbPc' = "callback"
    /\ UNCHANGED <<sbCalls, sbBefore, sbQueue, sbSent, sbRet>>
    /\ SbFrame

\* one call of the callback on the builder
SbCall(call, name, t) ==
    /\ sbPc = "callback"
    /\ Len(sbCalls) < MaxCalls
    /\ tb' = t
    /\ sbBefore' = tb
    /\ sbCalls' = Append(sbCalls, [call |-> call, name |-> name])
    /\ UNCHANGED <<sbPc, sbKind, sbQueue, sbSent, sbRet>>
    /\ SbFrame

SbID == <<"i", "d">> \notin SbDeclared /\ SbCall("ID", <<"i", "d">>, tableBuilder_ID(tb))

SbString ==
    \E name \in StringNames \ SbDeclared : \E length \in StringLengths :
        SbCall("String", name, tableBuilder_String(tb, name, length))

SbInteger ==
    \E name \in IntegerNames \ SbDeclared : SbCall("Integer", name, tableBuilder_Integer(tb, name))

SbNullable == SbCall("Nullable", <<>>, tableBuilder_Nullable(tb))

SbNotNull == SbCall("NotNull", <<>>, tableBuilder_NotNull(tb))

SbDefault == \E v \in SbDefaults : SbCall("Default", <<>>, tableBuilder_Default(tb, v))

SbComment == \E c \in SbComments : SbCall("Comment", <<>>, tableBuilder_Comment(tb, c))

SbAutoIncrement == SbCall("AutoIncrement", <<>>, tableBuilder_AutoIncrement(tb))

SbDropColumn ==
    \E name \in SbNames \ SbDeclared :
        SbCall("DropColumn", name, tableBuilder_DropColumn(tb, name))

\* the callback returned: CreateTable has the one statement of ToSQL to
\* execute, AlterTable those of ToAlterSQLs and returns nil when there are none
SbCallbackReturns ==
    /\ sbPc = "callback"
    /\ \E sqls \in {IF sbKind = "CreateTable" THEN <<tableBuilder_ToSQL(mdDialect, tb)>>
                    ELSE tableBuilder_ToAlterSQLs(mdDialect, tb)} :
         /\ sbQueue' = sqls
         /\ sbPc' = IF sqls = <<>> THEN "returned" ELSE "exec"
         /\ sbRet' = IF sqls = <<>> THEN RetNil ELSE sbRet
    /\ UNCHANGED <<tb, sbKind, sbCalls, sbBefore, sbSent>>
    /\ SbFrame

\* BaseMigration.DropColumn(tableName, columnName): the dialect's statement,
\* handed to bm.Exec
SbMigrationDropColumn ==
    /\ sbPc = "idle"
    /\ \E name \in SbNames :
         /\ sbQueue' = <<Dialect_DropColumnSQL(mdDialect, SbTable, name)>>
         /\ sbCalls' = <<[call |-> "DropColumn", name |-> name]>>
    /\ sbKind' = "DropColumn"
    /\ sbPc' = "exec"
    /\ UNCHANGED <<tb, sbBefore, sbSent, sbRet>>
    /\ SbFrame

\* s.orm.Exec(sql) of the next statement: an error is returned at once, the
\* last statement's success returns nil
SbExec ==
    /\ sbPc = "exec"
    /\ sbQueue # <<>>
    /\ \E res \in ExecResults :
         /\ sbSent' = Append(sbSent, [sql |-> Head(sbQueue), res |-> res])
         /\ IF res # RetNil
            THEN sbPc' = "returned" /\ sbRet' = res /\ UNCHANGED sbQueue
            ELSE /\ sbQueue' = Tail(sbQueue)
                 /\ sbPc' = IF Tail(sbQueue) = <<>> THEN "returned" ELSE "exec"
                 /\ sbRet' = IF Tail(sbQueue) = <<>> THEN RetNil ELSE sbRet
    /\ UNCHANGED <<tb, sbKind, sbCalls, sbBefore>>
    /\ SbFrame

\* The caller goes on to its next schema call.
SbNextCall ==
    /\ sbPc = "returned"
    /\ tb' = NoBuilder
    /\ sbPc' = "idle"
    /\ sbKind' = "none"
    /\ sbCalls' = <<>>
    /\ sbBefore' = NoBuilder
    /\ sbQueue' = <<>>
    /\ sbSent' = <<>>
    /\ sbRet' = RetNone
    /\ SbFrame

\* a connected handle of any dialect
InitSchema ==
    /\ ormDb = "open"
    /\ dbRows = {}
    /\ InitTxVars /\ InitQbVars /\ InitMmVars /\ InitGmVars /\ InitGlVars /\ InitExtVars
    /\ mdDialect \in Dialects
    /\ mdType = <<>>
    /\ mdTableName = <<>>
    /\ MdStart

NextSchema ==
    \/ SbCreateTable
    \/ SbAlterTable
    \/ SbID
    \/ SbString
    \/ SbInteger
    \/ SbNullable
    \/ SbNotNull
    \/ SbDefault
    \/ SbComment
    \/ SbAutoIncrement
    \/ SbDropColumn
    \/ SbCallbackReturns
    \/ SbMigrationDropColumn
    \/ SbExec
    \/ SbNextCall

SpecSchema == InitSchema /\ [][NextSchema]_vars


\* ---------------------------------------------------------------------------
\* Schema builder: properties
\* ---------------------------------------------------------------------------
\* the callback's calls that ask for a statement in an AlterTable
AlterCalls ==
    SelectSeq(sbCalls, LAMBDA c : c.call \in {"String", "Integer", "DropColumn"})

\* the column a statement is about, and what it does with it
StmtSubject(sql) ==
    IF sql[1].t = "comment" THEN SubSeq(sql[1].v, Len(SbTable) + 2, Len(sql[1].v))
    ELSE sql[4].v

StmtDrops(sql) == sql[1].t = "comment" \/ sql[3].s = "DROP COLUMN"

\* a column drop is the first thing the call asks of the database
DropComesFirst ==
    \/ sbKind = "DropColumn"
    \/ sbKind = "AlterTable" /\ AlterCalls # <<>> /\ AlterCalls[1].call = "DropColumn"

\* C21: a column drop under the SQLite dialect (BaseMigration.DropColumn, or
\* DropColumn in an AlterTable callback) returns an explicit
\* unsupported-operation error and hands no statement, in particular no SQL
\* comment, to the database.
C21_SQLiteDropColumnIsExplicitError ==
    (mdDialect = "sqlite" /\ sbPc = "returned" /\ DropComesFirst) =>
        /\ sbRet = RetErr("unsupported")
        /\ sbSent = <<>>

\* the definition the builder holds for a declared column: an entry of
\* tb.columns or the Data of an ADD_COLUMN operation
DefsOf(t) ==
    {t.columns[k] : k \in 1..Len(t.columns)}
        \cup {t.alterOps[k].Col : k \in {j \in 1..Len(t.alterOps) : t.alterOps[j].Type = "ADD_COLUMN"}}

DefOf(t, name) == CHOOSE c \in DefsOf(t) : c.Name = name

Declarators == {"ID", "String", "Integer"}
Modifiers == {"Nullable", "NotNull", "Default", "Comment", "AutoIncrement"}

\* what a modifier asks of a definition
Modified(c, m) ==
    CASE m = "Nullable" -> ~c.NotNull
      [] m = "NotNull" -> c.NotNull
      [] m = "Default" -> c.Default.set
      [] m = "Comment" -> c.Comment # <<>>
      [] OTHER -> c.AutoIncrement

\* the text generated for a declared column: its part of CREATE TABLE, or its
\* ADD COLUMN statement
TextOf(c) ==
    IF tb.alterMode /\ c.Name # <<"i", "d">>
    THEN Dialect_AddColumnSQL(mdDialect, tb.tableName, c.Name, c)
    ELSE ColumnPart(mdDialect, c)

Words(toks) == {toks[k].s : k \in {j \in 1..Len(toks) : toks[j].t = "word"}}

\* what a modifier asks of the generated text
Reflected(toks, m) ==
    CASE m = "Nullable" -> "NOT NULL" \notin Words(toks)
      [] m = "NotNull" -> "NOT NULL" \in Words(toks)
      [] m = "Default" -> "DEFAULT" \in Words(toks)
      [] m = "Comment" -> "COMMENT" \in Words(toks)
      [] OTHER -> Dialect_AutoIncrement(mdDialect).s \in Words(toks)

\* C23: a modifier called right after a column declarator changes the
\* definition of that column and of no other, and the text generated for the
\* column shows it, in CreateTable and in AlterTable callbacks.
C23_ModifierHitsDeclaredColumn ==
    (sbPc = "callback" /\ Len(sbCalls) >= 2
        /\ sbCalls[Len(sbCalls)].call \in Modifiers
        /\ sbCalls[Len(sbCalls) - 1].call \in Declarators) =>
        LET m == sbCalls[Len(sbCalls)].call
            name == sbCalls[Len(sbCalls) - 1].name
        IN  /\ Modified(DefOf(tb, name), m)
            /\ \A c \in DefsOf(sbBefore) : c.Name # name => c \in DefsOf(tb)
            /\ Reflected(TextOf(DefOf(tb, name)), m)

\* C24: AlterTable hands its statements to the database one at a time in the
\* order the callback declared them; the first failure is returned at once,
\* with the earlier statements executed (and applied) and the later ones
\* never executed; nil is returned when all were executed.
C24_AlterStopsAtFirstFailure ==
    (sbKind = "AlterTable" /\ sbPc \in {"exec", "returned"}) =>
        /\ Len(sbSent) <= Len(AlterCalls)
        /\ \A k \in 1..Len(sbSent) :
             /\ StmtSubject(sbSent[k].sql) = AlterCalls[k].name
             /\ StmtDrops(sbSent[k].sql) <=> AlterCalls[k].call = "DropColumn"
             /\ k < Len(sbSent) => sbSent[k].res = RetNil
        /\ sbPc = "exec" =>
             /\ Len(sbSent) < Len(AlterCalls)
             /\ \A k \in 1..Len(sbSent) : sbSent[k].res = RetNil
        /\ (sbPc = "returned" /\ sbRet = RetNil) =>
             /\ Len(sbSent) = Len(AlterCalls)
             /\ \A k \in 1..Len(sbSent) : sbSent[k].res = RetNil
        /\ (sbPc = "returned" /\ sbRet # RetNil) =>
             /\ sbSent # <<>>
             /\ sbSent[Len(sbSent)].res = sbRet
             /\ sbRet.kind = "err"

\* the second of three statements failed: the first stays executed, the third
\* was never handed over
C24_Witness ==
    /\ sbKind = "AlterTable" /\ sbPc = "returned"
    /\ Len(AlterCalls) = 3
    /\ Len(sbSent) = 2
    /\ sbSent[1].res = RetNil
    /\ sbRet = RetErr("e1")
    /\ AlterCalls[1].name # AlterCalls[2].name


\* ---------------------------------------------------------------------------
\* AutoMigrate over several models. A model is its type name and what its
\* TableName() gives (empty when it has none). The handle is connected; the
\* database answers a check or a CREATE TABLE with success or an error, and
\* no other client changes its tables.
\* ---------------------------------------------------------------------------
MaxModels == 2

AmModel(name, table) == [name |-> name, table |-> table]

\* User (table user), Post (TableName posts), Admin (TableName user)
AmModelSet ==
    {AmModel(<<"U", "s", "e", "r">>, <<>>),
     AmModel(<<"P", "o", "s", "t">>, <<"p", "o", "s", "t", "s">>),
     AmModel(<<"A", "d", "m", "i", "n">>, <<"u", "s", "e", "r">>)}

AmModelLists == UNION {[1..n -> AmModelSet] : n \in 0..MaxModels}

\* mm.getTableName(model)
AmTableName(m) == IF m.table # <<>> THEN m.table ELSE camelToSnake(m.name)

AmEntry(kind, table, ok) == [kind |-> kind, table |-> table, ok |-> ok]

\* faulty variant: the count is never read, the table is taken as absent
ModelManager_HasTable_Absent(tables, tableName, queryOk) ==
    [exists |-> FALSE, err |-> IF queryOk THEN Nil ELSE "e1"]

\* HasTable: count > 0 of the dialect's catalogue query, with Scan's error
ModelManager_HasTable(tables, tableName, queryOk) ==
    [exists |-> queryOk /\ tableName \in tables, err |-> IF queryOk THEN Nil ELSE "e1"]

AmFrame == UNCHANGED <<ormVars, txVars, qbVars, mmVars, gmVars, glVars, mdVars, sbVars, hxVars, fsVars>>

\* AutoMigrate(models...)
AmStart ==
    /\ amPc = "idle"
    /\ \E ms \in AmModelLists :
         /\ amModels' = ms
         /\ amQueue' = ms
         /\ amPc' = IF ms = <<>> THEN "returned" ELSE "run"
         /\ amRet' = IF ms = <<>> THEN RetNil ELSE RetNone
    /\ amLog' = <<>>
    /\ amPre' = amTables
    /\ UNCHANGED amTables
    /\ AmFrame

\* one turn of the loop: HasTable, then CreateTable when the table is absent;
\* an error of either is returned at once
AmStep ==
    /\ amPc = "run"
    /\ amQueue # <<>>
    /\ \E queryOk \in BOOLEAN, execOk \in BOOLEAN :
         LET name == AmTableName(Head(amQueue))
             has == ModelManager_HasTable(amTables, name, queryOk)
             check == AmEntry("check", name, queryOk)
             last == Len(amQueue) = 1
         IN  IF has.err # Nil
             THEN /\ execOk
                  /\ amLog' = Append(amLog, check)
                  /\ amPc' = "returned" /\ amRet' = RetErr(has.err)
                  /\ UNCHANGED <<amTables, amQueue>>
             ELSE IF has.exists
             THEN /\ execOk
                  /\ amLog' = Append(amLog, check)
                  /\ amQueue' = Tail(amQueue)
                  /\ amPc' = IF last THEN "returned" ELSE "run"
                  /\ amRet' = IF last THEN RetNil ELSE amRet
                  /\ UNCHANGED amTables
             ELSE IF execOk
             THEN /\ amLog' = amLog \o <<check, AmEntry("ddl", name, TRUE)>>
                  /\ amTables' = amTables \cup {name}
                  /\ amQueue' = Tail(amQueue)
                  /\ amPc' = IF last THEN "returned" ELSE "run"
                  /\ amRet' = IF last THEN RetNil ELSE amRet
             ELSE /\ amLog' = amLog \o <<check, AmEntry("ddl", name, FALSE)>>
                  /\ amPc' = "returned" /\ amRet' = RetErr("e1")
                  /\ UNCHANGED <<amTables, amQueue>>
    /\ UNCHANGED <<amModels, amPre>>
    /\ AmFrame

\* The caller goes on to its next AutoMigrate call.
AmNextCall ==
    /\ amPc = "returned"
    /\ amPc' = "idle"
    /\ amModels' = <<>>
    /\ amQueue' = <<>>
    /\ amLog' = <<>>
    /\ amPre' = {}
    /\ amRet' = RetNone
    /\ UNCHANGED amTables
    /\ AmFrame

NextAutoMigrate ==
    \/ AmStart
    \/ AmStep
    \/ AmNextCall

SpecAutoMigrate == Init /\ [][NextAutoMigrate]_vars

\* the tables of all the call's models existed when it started
AlreadyMigrated ==
    \A k \in 1..Len(amModels) : AmTableName(amModels[k]) \in amPre

AmDDL == SelectSeq(amLog, LAMBDA e : e.kind = "ddl")

\* C22: an AutoMigrate call for models whose tables all exist issues no DDL
\* statement, only one existence check per model, leaves the tables as they
\* were and returns nil (an error only when an existence check itself failed).
C22_AutoMigrateIdempotent ==
    (amPc \in {"run", "returned"} /\ AlreadyMigrated) =>
        /\ AmDDL = <<>>
        /\ amTables = amPre
        /\ Len(amLog) <= Len(amModels)
        /\ \A k \in 1..Len(amLog) : amLog[k].table = AmTableName(amModels[k])
        /\ (amPc = "returned" /\ amRet = RetNil) =>
             /\ Len(amLog) = Len(amModels)
             /\ \A k \in 1..Len(amLog) : amLog[k].ok
        /\ (amPc = "returned" /\ amRet # RetNil) =>
             /\ amLog # <<>>
             /\ ~amLog[Len(amLog)].ok

\* a second AutoMigrate of two models with different tables returned nil
C22_Witness ==
    /\ amPc = "returned" /\ amRet = RetNil
    /\ AlreadyMigrated
    /\ Len(amModels) = 2
    /\ AmTableName(amModels[1]) # AmTableName(amModels[2])
    /\ Len(amLog) = 2


\* ---------------------------------------------------------------------------
\* Run after a failed Run: one manager whose migrations are all registered
\* before its first Run, then Run called again and again.
\* ---------------------------------------------------------------------------
\* AddMigration before the first call on the manager
AddMigrationFirst ==
    /\ gmPrev = NoCall
    /\ AddMigration

NextRerun ==
    \/ AddMigrationFirst
    \/ RunStart
    \/ RunStep
    \/ GlobalNextCall

SpecRerun == Init /\ [][NextRerun]_vars

\* the versions a call recorded
RecordedBy(log) == {log[k].v : k \in {j \in 1..Len(log) : log[j].e = "Record" /\ log[j].ok}}

FirstLimitVals == {-1, 0, 5}
Renderers == {"ToSQL", "Get", "Find"}

\* faulty variant: First limits a copy and leaves the builder as it was
queryBuilder_First_OnCopy(q) == q

\* queryBuilder.First, its effect on the builder: qb.limitNum = 1
queryBuilder_First(q) == [q EXCEPT !.limitNum = 1]

\* queryBuilder.Get: SELECT built from the builder, dispatched with Query
queryBuilder_Get(q) == buildSelectSQL(q)

\* queryBuilder.Find: an alias of Get
queryBuilder_Find(q) == queryBuilder_Get(q)

\* a chained call that is neither First nor Limit
FsChained(call, q) ==
    /\ qb' = q
    /\ qbSQL' = <<>>
    /\ qbArgs' = <<>>
    /\ fs' = [fs EXCEPT !.last = call, !.before = EmptyBuilder]
    /\ UNCHANGED <<qbFirst, ormVars, txVars, mmVars, gmVars, glVars, mdVars, sbVars, hxVars, amVars>>

FsWhere ==
    /\ NumConds < MaxConds
    /\ \E n \in 0..1 :
         LET k == NumConds + 1
         IN  FsChained("Where", Where(qb, WhereText(k, n), Slice(10 * k, CondArgs(k, n))))

FsHaving ==
    /\ NumHavings < MaxHavings
    /\ LET k == NumHavings + 1 IN FsChained("Having", Having(qb, HavingText(k, 1), HavingArgs(k, 1)))

FsOffset == \E n \in OffsetVals : n # qb.offsetNum /\ FsChained("Offset", Offset(qb, n))

FsSelect == NumExtras < MaxExtras /\ FsChained("Select", Select(qb, <<"id", "name">>))

FsOrderBy == NumExtras < MaxExtras /\ FsChained("OrderBy", OrderBy(qb, "name", "DESC"))

FsGroupBy == NumExtras < MaxExtras /\ FsChained("GroupBy", GroupBy(qb, <<"name">>))

FsJoin == NumExtras < MaxExtras /\ FsChained("Join", Join(qb, "orders", "users.id = orders.user_id"))

\* queryBuilder.Limit
FsLimit ==
    \E n \in FirstLimitVals :
        /\ qb' = Limit(qb, n)
        /\ qbSQL' = <<>>
        /\ qbArgs' = <<>>
        /\ fs' = [fs EXCEPT !.last = "Limit", !.before = EmptyBuilder,
                            !.limits = IF fs.first THEN {n} ELSE {}]
        /\ UNCHANGED <<qbFirst, ormVars, txVars, mmVars, gmVars, glVars, mdVars, sbVars, hxVars, amVars>>

\* queryBuilder.First on a connected handle: limitNum = 1, SELECT built and
\* dispatched with QueryRow, then scanRow
FsFirst ==
    /\ ormDb = "open"
    /\ \E destKind \in {"ptrStruct"} :
         LET q1 == queryBuilder_First(qb)
             r == buildSelectSQL(q1)
             res == scanRow(ZeroRow, destKind)
         IN  /\ qb' = q1
             /\ qbSQL' = r.sql
             /\ qbArgs' = r.args
             /\ qbFirst' = [called |-> TRUE, matched |-> FALSE, row |-> ZeroRow,
                            destKind |-> destKind, err |-> res.err, dest |-> res.dest]
    /\ fs' = [last |-> "First", before |-> qb, first |-> TRUE, limits |-> {}]
    /\ UNCHANGED <<ormVars, txVars, mmVars, gmVars, glVars, mdVars, sbVars, hxVars, amVars>>

\* ToSQL, Get, Find: the builder is rendered and left as it is
FsRender(call, r) ==
    /\ qbSQL' = r.sql
    /\ qbArgs' = r.args
    /\ fs' = [fs EXCEPT !.last = call, !.before = EmptyBuilder]
    /\ UNCHANGED <<qb, qbFirst, ormVars, txVars, mmVars, gmVars, glVars, mdVars, sbVars, hxVars, amVars>>

FsToSQL == fs.last # "ToSQL" /\ FsRender("ToSQL", ToSQL(qb))

FsGet == fs.last # "Get" /\ FsRender("Get", queryBuilder_Get(qb))

FsFind == fs.last # "Find" /\ FsRender("Find", queryBuilder_Find(qb))

\* ORM.Table: the caller starts over with a fresh builder
FsNew ==
    /\ fs # NoFs
    /\ qb' = ORM_Table("users")
    /\ qbSQL' = <<>>
    /\ qbArgs' = <<>>
    /\ fs' = NoFs
    /\ UNCHANGED <<qbFirst, ormVars, txVars, mmVars, gmVars, glVars, mdVars, sbVars, hxVars, amVars>>

NextFirst ==
    \/ FsWhere
    \/ FsHaving
    \/ FsOffset
    \/ FsSelect
    \/ FsOrderBy
    \/ FsGroupBy
    \/ FsJoin
    \/ FsLimit
    \/ FsFirst
    \/ FsToSQL
    \/ FsGet
    \/ FsFind
    \/ FsNew

SpecFirst == Init /\ [][NextFirst]_vars

\* the statement has a LIMIT clause with this number
RendersLimit(sql, n) ==
    \E i \in 1..(Len(sql) - 1) : sql[i] = Kw("LIMIT") /\ sql[i + 1] = Num(n)
RendersNoLimit(sql) == \A i \in 1..Len(sql) : sql[i] # Kw("LIMIT")

\* the fields First must leave alone
OtherFields(q) ==
    <<q.orm, q.tx, q.tableName, q.selectCols, q.conditions, q.joins, q.orders,
      q.groups, q.havings, q.offsetNum>>

\* C28 as stated: after First has returned, every ToSQL, Get or Find on the
\* builder renders LIMIT 1 unless Limit was called since with a positive
\* value, and First changes no field of the builder but the limit.
C28_FirstPinsLimitUntilPositive ==
    /\ (fs.first /\ fs.last \in Renderers /\ \A n \in fs.limits : n <= 0)
          => RendersLimit(qbSQL, 1)
    /\ fs.last = "First" => OtherFields(qb) = OtherFields(fs.before)

\* C28 amended: after First has returned, every ToSQL, Get or Find on the
\* builder renders LIMIT 1 until Limit is called again; from then on the
\* last Limit value decides: a positive n renders LIMIT n, zero or a negative
\* value renders no LIMIT clause. First changes no field but the limit.
C28_FirstPinsLimitUntilLimit ==
    /\ (fs.first /\ fs.last \in Renderers) =>
          /\ fs.limits = {} => RendersLimit(qbSQL, 1)
          /\ \A n \in fs.limits :
                IF n > 0 THEN RendersLimit(qbSQL, n) ELSE RendersNoLimit(qbSQL)
    /\ fs.last = "First" =>
          /\ qb.limitNum = 1
          /\ RendersLimit(qbSQL, 1)
          /\ OtherFields(qb) = OtherFields(fs.before)

\* Limit(5), Offset(2), Select, Where, First, then Find: LIMIT 1 although the
\* caller asked for 5
C28_Witness ==
    /\ fs.first
    /\ fs.last = "Find"
    /\ fs.limits = {}
    /\ qb.offsetNum = 2
    /\ qb.selectCols # <<>>
    /\ qb.conditions # <<>>
    /\ RendersLimit(qbSQL, 1)


\* ---------------------------------------------------------------------------
\* Record types keyed by an integer field of any kind
\* ---------------------------------------------------------------------------
\* reflect.Kind of the Go integer types
IntegerKinds == {"int", "int8", "int16", "int32", "int64",
                 "uint", "uint8", "uint16", "uint32", "uint64"}

\* the SQL types that hold integers, in the dialects' spellings
IntegerSQLTypes == {"TINYINT", "SMALLINT", "INT", "INTEGER", "BIGINT"}

\* ID <kind> `orm:"id,primary,auto_increment"`
KeyField(kind) == Field(<<"I", "D">>, kind, IdField.tag)

\* the README's model shape: the key, alone or followed by Name or Age
KeyTypes ==
    {<<KeyField(kind)>> : kind \in IntegerKinds}
    \cup {<<KeyField(kind), f>> : kind \in IntegerKinds, f \in {NameField, Field(<<"A", "g", "e">>, "int", <<>>)}}

\* any dialect, a record type with an integer key, on a connected handle
InitKinds ==
    /\ ormDb = "open"
    /\ dbRows = {}
    /\ InitTxVars /\ InitQbVars /\ InitMmVars /\ InitGmVars /\ InitGlVars /\ InitExtVars
    /\ mdDialect \in Dialects
    /\ mdType \in KeyTypes
    /\ mdTableName \in TableNames
    /\ MdStart

NextKinds ==
    \/ MdGetTableInfo
    \/ MdCreateTable

SpecKinds == InitKinds /\ [][NextKinds]_vars

\* C30: for every dialect and every Go integer kind, signed or unsigned and
\* of any width, the column derived from a field of that kind has an integer
\* SQL type; the key field tagged primary,auto_increment becomes a primary,
\* auto-increment column of an integer type, in GetTableInfo's metadata and
\* in the column definitions CreateTable hands to the dialect.
C30_IntegerKindsAreIntegerColumns ==
    /\ (mdInfo.called /\ ~mdInfo.info.isNil) =>
          \A k \in 1..Len(mdInfo.info.Columns) :
              mdType[k].kind \in IntegerKinds =>
                  mdInfo.info.Columns[k].Type.base \in IntegerSQLTypes
    /\ mdDDL.cols # <<>> =>
          /\ mdDDL.cols[1].Primary
          /\ mdDDL.cols[1].AutoIncrement
          /\ mdDDL.cols[1].Type.base \in IntegerSQLTypes

====
